---- MODULE Spec2Model ----
(***************************************************************************)
(* A model of the URL resolver (url_resolver.py), the Wayback archiver     *)
(* (wayback_archiver.py) and the two batch drivers (app.py, index.py).     *)
(*                                                                         *)
(* Strings are sequences of tokens: a scheme prefix ("https://",           *)
(* "http://"), the separator "/", the blank " ", and atomic host and path  *)
(* segment names.  Concatenation is \o, so prefix tests, urlparse and the  *)
(* relative-URL arithmetic of the code are computed, not assumed.          *)
(***************************************************************************)
EXTENDS Integers, Sequences, FiniteSets, TLC

(* ------------------------------------------------------------------ *)
(* Bounds of the model                                                 *)
(* ------------------------------------------------------------------ *)

\* Largest max_redirects the resolver is constructed with.
MaxRedirects == 3

(* ------------------------------------------------------------------ *)
(* State                                                               *)
(* ------------------------------------------------------------------ *)

\* URLResolver.resolve_url
VARIABLES
    url,             \* the argument of resolve_url
    max_redirects,   \* self.max_redirects
    rpc,             \* where resolve_url stands
    i,               \* the loop index of "for i in range(self.max_redirects)"
    redirect_chain,
    current_url,
    last,            \* the most recent request and what came back
    head_count,      \* HEAD requests issued so far
    get_count,       \* GET requests issued so far
    fresh_only,      \* every request so far was a HEAD answered by a redirect to a URL not in the chain
    failed,          \* some request so far raised a transport exception
    rresult          \* what resolve_url returned or raised

rvars == <<url, max_redirects, rpc, i, redirect_chain, current_url, last,
           head_count, get_count, fresh_only, failed, rresult>>

\* WaybackArchiver.archive_url
VARIABLES
    archive_arg,     \* the argument of the running archive_url call
    apc,             \* where archive_url stands
    utcnow,          \* datetime.utcnow(), in seconds
    avail_seen,      \* what the availability endpoint answered in the running call
    avail_requests,  \* requests to the availability endpoint in the running call
    save_requests,   \* requests to the save endpoint in the running call
    save_status,     \* the status code the save endpoint answered with (0: none)
    save_url,        \* response.url of the answer of the save endpoint
    aresult,         \* what the running call returned or raised
    prev_call        \* the argument and the result of the call before it

avars == <<archive_arg, apc, utcnow, avail_seen, avail_requests, save_requests,
           save_status, save_url, aresult, prev_call>>

\* process_urls of app.py and of index.py
VARIABLES
    deployment,       \* "app" (app.py) or "index" (index.py)
    df,               \* the dataframe: one record per input row
    max_retries,
    max_urls,         \* index.py only
    delay,            \* seconds between items, in milliseconds
    bpc,              \* where process_urls stands
    urls_to_process,  \* the row numbers admitted to the run, in order
    total_urls,
    pos,              \* how many rows the "for" loop has taken
    processed_count,
    success_count,
    error_count,
    elapsed,          \* time.time() - start_time, in milliseconds
    attempt,          \* the loop index of the running retry loop
    resolved,         \* what resolve_with_retries returned for the current item
    resolve_calls,    \* resolve_url calls made for the current item
    retry_sleeps,     \* time.sleep calls of resolve_with_retries for the current item
    archive_calls,    \* archive_url calls made for the current item
    archive_url_arg,  \* the URL archive_url was last called with for the current item
    last_raised,      \* the message of the latest exception resolve_url raised for the current item
    archive_outcome,  \* how the latest archive_url call for the current item ended
    sleeps,           \* inter-item sleeps made so far
    last_wait,        \* the clock at the end of the last loop body and the sleep that followed
    outcome_log       \* per finished loop body, what resolve_with_retries ended with

bvars == <<deployment, df, max_retries, max_urls, delay, bpc, urls_to_process,
           total_urls, pos, processed_count, success_count, error_count, elapsed,
           attempt, resolved, resolve_calls, retry_sleeps, archive_calls, archive_url_arg, last_raised,
           archive_outcome,
           sleeps, last_wait, outcome_log>>

vars == <<rvars, avars, bvars>>

(* ------------------------------------------------------------------ *)
(* Strings and URL parsing                                             *)
(* ------------------------------------------------------------------ *)

SchemeTokens == {"https://", "http://"}

\* Python None, and any non-string argument.
None == <<"None">>
NotAString == <<"NotAString">>

\* str.startswith(('http://', 'https://'))
StartsWithScheme(s) == Len(s) >= 1 /\ s[1] \in SchemeTokens

\* str.startswith('/')
StartsWithSlash(s) == Len(s) >= 1 /\ s[1] = "/"

RECURSIVE LStrip(_)
LStrip(s) == IF Len(s) >= 1 /\ s[1] = " " THEN LStrip(Tail(s)) ELSE s

RECURSIVE RStrip(_)
RStrip(s) ==
    IF Len(s) >= 1 /\ s[Len(s)] = " " THEN RStrip(SubSeq(s, 1, Len(s) - 1)) ELSE s

\* str.strip()
Strip(s) == RStrip(LStrip(s))

\* Index of the first "/" token of s at or after position k, 0 when there is none.
RECURSIVE FirstSlash(_, _)
FirstSlash(s, k) ==
    IF k > Len(s) THEN 0 ELSE IF s[k] = "/" THEN k ELSE FirstSlash(s, k + 1)

\* Index of the last "/" token of s, 0 when there is none.
RECURSIVE LastSlash(_, _)
LastSlash(s, k) ==
    IF k < 1 THEN 0 ELSE IF s[k] = "/" THEN k ELSE LastSlash(s, k - 1)

\* urlparse(u).scheme followed by "://" (empty when u has no scheme prefix).
SchemePrefix(u) == IF StartsWithScheme(u) THEN <<u[1]>> ELSE <<>>

\* urlparse(u).netloc: what follows the scheme prefix up to the first "/".
Netloc(u) ==
    IF ~StartsWithScheme(u) THEN <<>>
    ELSE LET k == FirstSlash(u, 2)
         IN  IF k = 0 THEN SubSeq(u, 2, Len(u)) ELSE SubSeq(u, 2, k - 1)

\* urlparse(u).path: from the first "/" after the netloc to the end.
Path(u) ==
    IF ~StartsWithScheme(u) THEN u
    ELSE LET k == FirstSlash(u, 2)
         IN  IF k = 0 THEN <<>> ELSE SubSeq(u, k, Len(u))

\* '/'.join(path.split('/')[:-1]): the path without its last segment.
BasePath(p) ==
    LET k == LastSlash(p, Len(p))
    IN  IF k = 0 THEN <<>> ELSE SubSeq(p, 1, k - 1)

\* x in list
InChain(x, chain) == \E k \in 1..Len(chain) : chain[k] = x

(* ------------------------------------------------------------------ *)
(* URLResolver.resolve_url                                             *)
(* ------------------------------------------------------------------ *)

RedirectStatuses == {301, 302, 303, 307, 308}

\* Status codes the remote server answers with.
Statuses == RedirectStatuses \cup {200, 404, 405}

\* requests.exceptions raised by session.head / session.get.
TransportErrors ==
    {"SSLError", "Timeout", "ConnectionError", "TooManyRedirects", "RequestException"}

\* Values of the Location header (None: the header is absent).
Locations ==
    { None, <<>>,
      <<"https://", "a">>, <<"https://", "b">>,
      <<"http://", "b", "/", "x", "/", "y">>,
      <<"/", "x">>, <<"x">> }

\* Arguments resolve_url is called with.
Inputs ==
    { NotAString, <<>>, <<" ">>, <<"/", "x">>,
      <<"a">>, <<" ", "a">>, <<" ", "https://", "a", " ">>,
      <<"http://", "b", "/", "x", "/", "y">> }

NoRequest ==
    [method |-> "none", url |-> <<>>, verify |-> TRUE,
     exc |-> "none", status |-> 0, location |-> None]

Response(method, u, verify, status, location) ==
    [method |-> method, url |-> u, verify |-> verify,
     exc |-> "none", status |-> status, location |-> location]

Failure(method, u, verify, exc) ==
    [method |-> method, url |-> u, verify |-> verify,
     exc |-> exc, status |-> 0, location |-> None]

\* What one request to u can come back with.  A URL without a scheme never
\* reaches the network: requests raises MissingSchema, a RequestException.
Outcomes(method, u, verify) ==
    IF ~StartsWithScheme(u)
    THEN {Failure(method, u, verify, "RequestException")}
    ELSE {Failure(method, u, verify, e) : e \in TransportErrors}
         \cup {Response(method, u, verify, s, l) : s \in Statuses, l \in Locations}

\* Mutant of Normalize: no https:// default.
NormalizeStripOnly(u) == Strip(u)

\* url.strip(), then the https:// default.
Normalize(u) ==
    LET t == Strip(u) IN IF StartsWithScheme(t) THEN t ELSE <<"https://">> \o t

\* Mutant of InvalidArgument: the argument test is missing.
InvalidArgumentNever(u) == FALSE

\* "not url or not isinstance(url, str)"
InvalidArgument(u) == u = NotAString \/ u = None \/ u = <<>>

\* The truth value of a header value: absent and empty are both false.
Truthy(l) == l # None /\ l # <<>>

\* The relative-URL handling of the HEAD branch.
HeadTarget(next_url, cur) ==
    IF StartsWithSlash(next_url)
    THEN SchemePrefix(cur) \o Netloc(cur) \o next_url
    ELSE IF ~StartsWithScheme(next_url)
         THEN SchemePrefix(cur) \o Netloc(cur) \o BasePath(Path(cur)) \o <<"/">> \o next_url
         ELSE next_url

\* The relative-URL handling of the GET fallback.
GetTarget(next_url, cur) ==
    IF StartsWithSlash(next_url)
    THEN SchemePrefix(cur) \o Netloc(cur) \o next_url
    ELSE next_url

\* The message of the exception resolve_url raises for a transport failure.
\* SSLError is a ConnectionError.
\* Mutant of ErrorMessage: every exception is reported as a request failure.
ErrorMessageGeneric(exc) == "Request failed"

ErrorMessage(exc) ==
    CASE exc = "Timeout" -> "Request timeout after 10 seconds"
      [] exc \in {"ConnectionError", "SSLError"} -> "Connection error - unable to reach URL"
      [] exc = "TooManyRedirects" -> "Too many redirects"
      [] exc = "RequestException" -> "Request failed"
      [] OTHER -> "Unexpected error during URL resolution"

Returned(final, chain) ==
    [kind |-> "return", final_url |-> final, chain |-> chain, error |-> ""]

Raised(msg) ==
    [kind |-> "raise", final_url |-> None, chain |-> <<>>, error |-> msg]

NoResult == [kind |-> "none", final_url |-> None, chain |-> <<>>, error |-> ""]

\* Mutant of LoopBound: range(self.max_redirects + 1).
LoopBoundOffByOne(n) == n + 1

\* The number of iterations the "for" loop makes.
LoopBound(n) == n

\* Mutant of ReturnNow: returns the starting URL instead of current_url.
ReturnNowFirstUrl ==
    /\ rpc' = "returned"
    /\ rresult' = Returned(redirect_chain'[1], redirect_chain')
    /\ i' = i

\* "break", or the loop running out: return current_url, redirect_chain.
ReturnNow ==
    /\ rpc' = "returned"
    /\ rresult' = Returned(current_url', redirect_chain')
    /\ i' = i

\* Mutant of NextIteration: the loop index is not advanced.
NextIterationStuck ==
    /\ rpc' = "head"
    /\ i' = i
    /\ rresult' = rresult

\* The end of one loop body that did not break: the next iteration, if any.
NextIteration ==
    IF i + 1 < LoopBound(max_redirects)
    THEN /\ rpc' = "head"
         /\ i' = i + 1
         /\ rresult' = rresult
    ELSE ReturnNow

\* An exception leaving the try block.
RaiseNow(exc) ==
    /\ rpc' = "raised"
    /\ rresult' = Raised(ErrorMessage(exc))
    /\ UNCHANGED <<i, redirect_chain, current_url>>

\* A response to HEAD is a redirect to a URL that is not yet in the chain.
IsFreshRedirect(r) ==
    /\ r.method = "HEAD"
    /\ r.exc = "none"
    /\ r.status \in RedirectStatuses
    /\ Truthy(r.location)
    /\ ~InChain(HeadTarget(r.location, r.url), redirect_chain)

\* Lines 39-56: validation, normalisation, chain = [url].
ResolveStart ==
    /\ rpc = "call"
    /\ UNCHANGED <<url, max_redirects, last, head_count, get_count, fresh_only, failed, i>>
    /\ UNCHANGED <<avars, bvars>>
    /\ IF InvalidArgument(url)
       THEN /\ rpc' = "raised"
            /\ rresult' = Raised("Invalid URL provided")
            /\ UNCHANGED <<redirect_chain, current_url>>
       ELSE IF Netloc(Normalize(url)) = <<>>
       THEN /\ rpc' = "raised"
            /\ rresult' = Raised("Invalid URL format")
            /\ UNCHANGED <<redirect_chain, current_url>>
       ELSE /\ redirect_chain' = <<Normalize(url)>>
            /\ current_url' = Normalize(url)
            /\ IF 0 < LoopBound(max_redirects)
               THEN rpc' = "head" /\ rresult' = rresult
               ELSE rpc' = "returned"
                    /\ rresult' = Returned(Normalize(url), <<Normalize(url)>>)

\* Mutant of ClassifyHead: a status that is no redirect, 200 or 405 raises.
ClassifyHeadOtherRaises(r) ==
    IF r.status \in RedirectStatuses
    THEN IF ~Truthy(r.location)
         THEN UNCHANGED <<redirect_chain, current_url>> /\ ReturnNow
         ELSE LET next_url == HeadTarget(r.location, current_url)
              IN  IF InChain(next_url, redirect_chain)
                  THEN UNCHANGED <<redirect_chain, current_url>> /\ ReturnNow
                  ELSE /\ redirect_chain' = Append(redirect_chain, next_url)
                       /\ current_url' = next_url
                       /\ NextIteration
    ELSE IF r.status = 200
    THEN UNCHANGED <<redirect_chain, current_url>> /\ ReturnNow
    ELSE IF r.status = 405
    THEN /\ rpc' = "get"
         /\ UNCHANGED <<redirect_chain, current_url, i, rresult>>
    ELSE RaiseNow("RequestException")

\* Mutant of ClassifyHead: no "if next_url in redirect_chain" test.
ClassifyHeadNoCycleTest(r) ==
    IF r.status \in RedirectStatuses
    THEN IF ~Truthy(r.location)
         THEN UNCHANGED <<redirect_chain, current_url>> /\ ReturnNow
         ELSE LET next_url == HeadTarget(r.location, current_url)
              IN  /\ redirect_chain' = Append(redirect_chain, next_url)
                  /\ current_url' = next_url
                  /\ NextIteration
    ELSE IF r.status = 200
    THEN UNCHANGED <<redirect_chain, current_url>> /\ ReturnNow
    ELSE IF r.status = 405
    THEN /\ rpc' = "get"
         /\ UNCHANGED <<redirect_chain, current_url, i, rresult>>
    ELSE UNCHANGED <<redirect_chain, current_url>> /\ ReturnNow

\* Mutant of ClassifyHead: 200 is not tested before 405, and takes the GET fallback too.
ClassifyHeadOkFallsBack(r) ==
    IF r.status \in RedirectStatuses
    THEN IF ~Truthy(r.location)
         THEN UNCHANGED <<redirect_chain, current_url>> /\ ReturnNow
         ELSE LET next_url == HeadTarget(r.location, current_url)
              IN  IF InChain(next_url, redirect_chain)
                  THEN UNCHANGED <<redirect_chain, current_url>> /\ ReturnNow
                  ELSE /\ redirect_chain' = Append(redirect_chain, next_url)
                       /\ current_url' = next_url
                       /\ NextIteration
    ELSE IF r.status \in {200, 405}
    THEN /\ rpc' = "get"
         /\ UNCHANGED <<redirect_chain, current_url, i, rresult>>
    ELSE UNCHANGED <<redirect_chain, current_url>> /\ ReturnNow

\* Lines 78-145: the classification of the response to HEAD.
ClassifyHead(r) ==
    IF r.status \in RedirectStatuses
    THEN IF ~Truthy(r.location)
         THEN UNCHANGED <<redirect_chain, current_url>> /\ ReturnNow
         ELSE LET next_url == HeadTarget(r.location, current_url)
              IN  IF InChain(next_url, redirect_chain)
                  THEN UNCHANGED <<redirect_chain, current_url>> /\ ReturnNow
                  ELSE /\ redirect_chain' = Append(redirect_chain, next_url)
                       /\ current_url' = next_url
                       /\ NextIteration
    ELSE IF r.status = 200
    THEN UNCHANGED <<redirect_chain, current_url>> /\ ReturnNow
    ELSE IF r.status = 405
    THEN /\ rpc' = "get"
         /\ UNCHANGED <<redirect_chain, current_url, i, rresult>>
    ELSE UNCHANGED <<redirect_chain, current_url>> /\ ReturnNow

\* Mutant of ClassifyGet: break after the GET fallback whatever it answered.
ClassifyGetAlwaysBreaks(r) ==
    IF r.status \in RedirectStatuses
    THEN IF Truthy(r.location) /\ ~InChain(r.location, redirect_chain)
         THEN LET next_url == GetTarget(r.location, current_url)
              IN  /\ redirect_chain' = Append(redirect_chain, next_url)
                  /\ current_url' = next_url
                  /\ ReturnNow
         ELSE UNCHANGED <<redirect_chain, current_url>> /\ ReturnNow
    ELSE UNCHANGED <<redirect_chain, current_url>> /\ ReturnNow

\* Lines 116-129: the classification of the response to the GET fallback.
ClassifyGet(r) ==
    IF r.status \in RedirectStatuses
    THEN IF Truthy(r.location) /\ ~InChain(r.location, redirect_chain)
         THEN LET next_url == GetTarget(r.location, current_url)
              IN  /\ redirect_chain' = Append(redirect_chain, next_url)
                  /\ current_url' = next_url
                  /\ NextIteration
         ELSE UNCHANGED <<redirect_chain, current_url>> /\ ReturnNow
    ELSE UNCHANGED <<redirect_chain, current_url>> /\ ReturnNow

\* Lines 61-67: session.head(current_url, verify=True).
HeadRequest ==
    /\ rpc = "head"
    /\ \E r \in Outcomes("HEAD", current_url, TRUE) :
          /\ last' = r
          /\ failed' = (failed \/ r.exc # "none")
          /\ head_count' = head_count + 1
          /\ fresh_only' = (fresh_only /\ IsFreshRedirect(r))
          /\ IF r.exc = "SSLError"
             THEN /\ rpc' = "head_noverify"
                  /\ UNCHANGED <<i, redirect_chain, current_url, rresult>>
             ELSE IF r.exc # "none"
             THEN RaiseNow(r.exc)
             ELSE ClassifyHead(r)
    /\ UNCHANGED <<url, max_redirects, get_count>>
    /\ UNCHANGED <<avars, bvars>>

\* Mutant of HeadRequestNoVerify: an SSLError of the retry is retried again.
HeadRequestNoVerifyAgain ==
    /\ rpc = "head_noverify"
    /\ \E r \in Outcomes("HEAD", current_url, FALSE) :
          /\ last' = r
          /\ failed' = (failed \/ r.exc # "none")
          /\ head_count' = head_count + 1
          /\ fresh_only' = (fresh_only /\ IsFreshRedirect(r))
          /\ IF r.exc = "SSLError"
             THEN /\ rpc' = "head_noverify"
                  /\ UNCHANGED <<i, redirect_chain, current_url, rresult>>
             ELSE IF r.exc # "none"
             THEN RaiseNow(r.exc)
             ELSE ClassifyHead(r)
    /\ UNCHANGED <<url, max_redirects, get_count>>
    /\ UNCHANGED <<avars, bvars>>

\* Lines 68-75: the retry of HEAD with verify=False.
HeadRequestNoVerify ==
    /\ rpc = "head_noverify"
    /\ \E r \in Outcomes("HEAD", current_url, FALSE) :
          /\ last' = r
          /\ failed' = (failed \/ r.exc # "none")
          /\ head_count' = head_count + 1
          /\ fresh_only' = (fresh_only /\ IsFreshRedirect(r))
          /\ IF r.exc # "none" THEN RaiseNow(r.exc) ELSE ClassifyHead(r)
    /\ UNCHANGED <<url, max_redirects, get_count>>
    /\ UNCHANGED <<avars, bvars>>

\* Lines 104-129: session.get(current_url, stream=True, verify=True).
GetRequest ==
    /\ rpc = "get"
    /\ \E r \in Outcomes("GET", current_url, TRUE) :
          /\ last' = r
          /\ failed' = (failed \/ r.exc # "none")
          /\ get_count' = get_count + 1
          /\ fresh_only' = FALSE
          /\ IF r.exc = "SSLError"
             THEN /\ rpc' = "get_noverify"
                  /\ UNCHANGED <<i, redirect_chain, current_url, rresult>>
             ELSE IF r.exc # "none"
             THEN RaiseNow(r.exc)
             ELSE ClassifyGet(r)
    /\ UNCHANGED <<url, max_redirects, head_count>>
    /\ UNCHANGED <<avars, bvars>>

\* Lines 131-141: the retry of GET with verify=False, then break.
GetRequestNoVerify ==
    /\ rpc = "get_noverify"
    /\ \E r \in Outcomes("GET", current_url, FALSE) :
          /\ last' = r
          /\ failed' = (failed \/ r.exc # "none")
          /\ get_count' = get_count + 1
          /\ fresh_only' = FALSE
          /\ IF r.exc # "none"
             THEN RaiseNow(r.exc)
             ELSE UNCHANGED <<redirect_chain, current_url>> /\ ReturnNow
    /\ UNCHANGED <<url, max_redirects, head_count>>
    /\ UNCHANGED <<avars, bvars>>

\* The resolver is not called.
ResolverIdle ==
    /\ url = <<>> /\ max_redirects = 0 /\ rpc = "idle" /\ i = 0
    /\ redirect_chain = <<>> /\ current_url = <<>> /\ last = NoRequest
    /\ head_count = 0 /\ get_count = 0 /\ fresh_only = TRUE /\ failed = FALSE /\ rresult = NoResult

ResolverInit ==
    /\ url \in Inputs
    /\ max_redirects \in 0..MaxRedirects
    /\ rpc = "call"
    /\ i = 0
    /\ redirect_chain = <<>>
    /\ current_url = <<>>
    /\ last = NoRequest
    /\ head_count = 0
    /\ get_count = 0
    /\ fresh_only = TRUE
    /\ failed = FALSE
    /\ rresult = NoResult

ResolverNext ==
    \/ ResolveStart
    \/ HeadRequest
    \/ HeadRequestNoVerify
    \/ GetRequest
    \/ GetRequestNoVerify

(* ------------------------------------------------------------------ *)
(* WaybackArchiver.archive_url and check_recent_archive                *)
(* ------------------------------------------------------------------ *)

\* The clock of the archiver model stops at MaxClock seconds.
MaxClock == 1

\* The default of the "hours" parameter of check_recent_archive.
FreshHours == 24

SecondsPerHour == 3600

\* Arguments archive_url is called with.
ArchiveInputs == { <<>>, <<"/", "x">>, <<"b">>, <<"https://", "a", "/", "x">> }

\* 'web.archive.org/web/'
SnapshotMarker == <<"web.archive.org", "/", "web", "/">>

\* Timestamps of fourteen digits, as the archive writes them.
DigitTokens == {"20240101000000"}

\* substring in string
Contains(part, s) ==
    \E k \in 1..(Len(s) - Len(part) + 1) : SubSeq(s, k, k + Len(part) - 1) = part

\* Snapshot references the archive service gives for u.
SnapshotRefs(u) ==
    { <<sch>> \o SnapshotMarker \o <<t, "/">> \o u : sch \in SchemeTokens, t \in DigitTokens }

\* self.save_api_url + quote(url)
SaveUrl(u) == <<"https://", "web.archive.org", "/", "save", "/">> \o u

\* Ages, in seconds, of the snapshot the availability endpoint reports.
SnapshotAges == {-60, 86399, 86400}

\* The answers of the availability endpoint: a transport failure, a status
\* other than 200, a body that is not JSON, or a JSON body with or without
\* archived_snapshots.closest.
AvailabilityAnswers(u) ==
    {[kind |-> k, available |-> FALSE, url |-> None, tskind |-> "absent", timestamp |-> 0] :
        k \in {"exception", "status503", "malformed", "no_snapshots", "no_closest"}}
    \cup {[kind |-> "closest", available |-> a, url |-> r, tskind |-> tk, timestamp |-> utcnow - age] :
            a \in BOOLEAN, r \in SnapshotRefs(u) \cup {None},
            tk \in {"valid"}, age \in SnapshotAges}
    \cup {[kind |-> "closest", available |-> TRUE, url |-> r, tskind |-> tk, timestamp |-> 0] :
            r \in SnapshotRefs(u), tk \in {"absent", "unparseable"}}

NoAnswer == [kind |-> "none", available |-> FALSE, url |-> None, tskind |-> "absent", timestamp |-> 0]

\* Mutant of IsRecent: the age test is dropped.
IsRecentAnyAge(ts, now, hours) == TRUE

\* time_diff.total_seconds() < hours * 3600
IsRecent(ts, now, hours) == (now - ts) < hours * SecondsPerHour

\* Mutant of CheckRecentArchive: never reports a recent snapshot.
CheckRecentArchiveNever(ans, now) == None

\* check_recent_archive: the snapshot URL when the answer holds an available
\* closest snapshot with a URL and a parseable recent timestamp, else None.
CheckRecentArchive(ans, now) ==
    IF /\ ans.kind = "closest"
       /\ ans.available
       /\ Truthy(ans.url)
       /\ ans.tskind = "valid"
       /\ IsRecent(ans.timestamp, now, FreshHours)
    THEN ans.url
    ELSE None

\* What the save request comes back with: a transport failure, or a status
\* and the URL the response ended at.
SaveAnswers(u) ==
    {[exc |-> e, status |-> 0, url |-> None] :
        e \in {"Timeout", "ConnectionError", "RequestException"}}
    \cup {[exc |-> "none", status |-> st, url |-> r] :
            st \in {200, 204, 403, 404, 429, 500},
            r \in SnapshotRefs(u) \cup {SaveUrl(u)}}

\* extract_timestamp_from_response: the digits after the marker in response.url.
ExtractTimestamp(respUrl) ==
    IF \E k \in 1..Len(respUrl) :
          /\ k >= Len(SnapshotMarker) + 1
          /\ SubSeq(respUrl, k - Len(SnapshotMarker), k - 1) = SnapshotMarker
          /\ respUrl[k] \in DigitTokens
    THEN CHOOSE t \in DigitTokens :
            \E k \in 1..Len(respUrl) :
                /\ k >= Len(SnapshotMarker) + 1
                /\ SubSeq(respUrl, k - Len(SnapshotMarker), k - 1) = SnapshotMarker
                /\ respUrl[k] = t
                /\ \A j \in 1..(k - 1) :
                      ~(j >= Len(SnapshotMarker) + 1
                        /\ SubSeq(respUrl, j - Len(SnapshotMarker), j - 1) = SnapshotMarker)
    ELSE "None"

ArchiveReturned(v) == [kind |-> "return", value |-> v, error |-> <<>>]

ArchiveRaised(msg) == [kind |-> "raise", value |-> None, error |-> msg]

\* Mutant of Rewrap: the last handler re-raises every message as it is.
RewrapNever(msg) == msg

\* The last handler of archive_url: rate-limit and forbidden messages pass
\* unchanged, any other message is wrapped.
Rewrap(msg) ==
    IF msg[1] \in {"Rate limited by Wayback Machine. Please slow down requests.",
                   "Access forbidden - URL may be blocked from archiving"}
    THEN msg
    ELSE <<"Unexpected error during archiving: ">> \o msg

\* Mutant of ClassifySave: a 200 whose response.url lacks the marker gives None.
ClassifySaveNoConstruct(ans, u, now) ==
    IF ans.exc = "Timeout"
    THEN ArchiveRaised(<<"Archiving timeout after 30 seconds">>)
    ELSE IF ans.exc = "ConnectionError"
    THEN ArchiveRaised(<<"Connection error - unable to reach Wayback Machine">>)
    ELSE IF ans.exc = "RequestException"
    THEN ArchiveRaised(<<"Request failed: ">>)
    ELSE IF ans.status = 200
    THEN IF Contains(SnapshotMarker, ans.url)
         THEN ArchiveReturned(ans.url)
         ELSE ArchiveReturned(None)
    ELSE IF ans.status = 429
    THEN ArchiveRaised(Rewrap(<<"Rate limited by Wayback Machine. Please slow down requests.">>))
    ELSE IF ans.status >= 400
    THEN IF ans.status = 403
         THEN ArchiveRaised(Rewrap(<<"Access forbidden - URL may be blocked from archiving">>))
         ELSE IF ans.status = 404
         THEN ArchiveRaised(Rewrap(<<"Wayback Machine service not found">>))
         ELSE ArchiveRaised(Rewrap(<<"Archiving failed with status code: ", ToString(ans.status)>>))
    ELSE ArchiveReturned(None)

\* Mutant of ClassifySave: 404 is reported like any other status above 400.
ClassifySaveNo404(ans, u, now) ==
    IF ans.exc = "Timeout"
    THEN ArchiveRaised(<<"Archiving timeout after 30 seconds">>)
    ELSE IF ans.exc = "ConnectionError"
    THEN ArchiveRaised(<<"Connection error - unable to reach Wayback Machine">>)
    ELSE IF ans.exc = "RequestException"
    THEN ArchiveRaised(<<"Request failed: ">>)
    ELSE IF ans.status = 200
    THEN IF Contains(SnapshotMarker, ans.url)
         THEN ArchiveReturned(ans.url)
         ELSE LET t == ExtractTimestamp(ans.url)
                  timestamp == IF t = "None" THEN ToString(now) ELSE t
              IN  ArchiveReturned(<<"https://">> \o SnapshotMarker \o <<timestamp, "/">> \o u)
    ELSE IF ans.status = 429
    THEN ArchiveRaised(Rewrap(<<"Rate limited by Wayback Machine. Please slow down requests.">>))
    ELSE IF ans.status >= 400
    THEN IF ans.status = 403
         THEN ArchiveRaised(Rewrap(<<"Access forbidden - URL may be blocked from archiving">>))
         ELSE ArchiveRaised(Rewrap(<<"Archiving failed with status code: ", ToString(ans.status)>>))
    ELSE ArchiveReturned(None)

\* Lines 63-101: the classification of the answer of the save endpoint.
ClassifySave(ans, u, now) ==
    IF ans.exc = "Timeout"
    THEN ArchiveRaised(<<"Archiving timeout after 30 seconds">>)
    ELSE IF ans.exc = "ConnectionError"
    THEN ArchiveRaised(<<"Connection error - unable to reach Wayback Machine">>)
    ELSE IF ans.exc = "RequestException"
    THEN ArchiveRaised(<<"Request failed: ">>)
    ELSE IF ans.status = 200
    THEN IF Contains(SnapshotMarker, ans.url)
         THEN ArchiveReturned(ans.url)
         ELSE LET t == ExtractTimestamp(ans.url)
                  timestamp == IF t = "None" THEN ToString(now) ELSE t
              IN  ArchiveReturned(<<"https://">> \o SnapshotMarker \o <<timestamp, "/">> \o u)
    ELSE IF ans.status = 429
    THEN ArchiveRaised(Rewrap(<<"Rate limited by Wayback Machine. Please slow down requests.">>))
    ELSE IF ans.status >= 400
    THEN IF ans.status = 403
         THEN ArchiveRaised(Rewrap(<<"Access forbidden - URL may be blocked from archiving">>))
         ELSE IF ans.status = 404
         THEN ArchiveRaised(Rewrap(<<"Wayback Machine service not found">>))
         ELSE ArchiveRaised(Rewrap(<<"Archiving failed with status code: ", ToString(ans.status)>>))
    ELSE ArchiveReturned(None)

NoArchiveResult == [kind |-> "none", value |-> None, error |-> <<>>]

\* No call was made before the running one.
NoCall == [arg |-> None, result |-> NoArchiveResult]

\* The clock moves on while a request is in flight.
Ticks == {d \in {0, 1} : utcnow + d <= MaxClock}

\* Lines 40-46: a call of archive_url, its argument test and normalisation.
ArchiveStart ==
    /\ apc \in {"idle", "done"}
    /\ \E u \in ArchiveInputs :
          /\ archive_arg' = u
          /\ IF InvalidArgument(u)
             THEN /\ apc' = "done"
                  /\ aresult' = ArchiveRaised(<<"Invalid URL provided">>)
             ELSE /\ apc' = "check"
                  /\ aresult' = NoArchiveResult
    /\ prev_call' = IF apc = "done" THEN [arg |-> archive_arg, result |-> aresult] ELSE prev_call
    /\ avail_seen' = NoAnswer
    /\ avail_requests' = 0
    /\ save_requests' = 0
    /\ save_status' = 0
    /\ save_url' = None
    /\ UNCHANGED utcnow
    /\ UNCHANGED <<rvars, bvars>>

\* Mutant of CheckRecent: a transport failure of the availability request
\* leaves check_recent_archive and archive_url.
CheckRecentRaises ==
    /\ apc = "check"
    /\ \E ans \in AvailabilityAnswers(Normalize(archive_arg)), d \in Ticks :
          /\ avail_seen' = ans
          /\ avail_requests' = avail_requests + 1
          /\ utcnow' = utcnow + d
          /\ LET existing_archive == CheckRecentArchive(ans, utcnow')
             IN  IF ans.kind = "exception"
                 THEN /\ apc' = "done"
                      /\ aresult' = ArchiveRaised(<<"Connection error - unable to reach Wayback Machine">>)
                 ELSE IF Truthy(existing_archive)
                 THEN /\ apc' = "done"
                      /\ aresult' = ArchiveReturned(existing_archive)
                 ELSE /\ apc' = "save"
                      /\ aresult' = aresult
    /\ UNCHANGED <<archive_arg, save_requests, save_status, save_url, prev_call>>
    /\ UNCHANGED <<rvars, bvars>>

\* Lines 48-52 and 103-155: the availability request and the freshness test.
CheckRecent ==
    /\ apc = "check"
    /\ \E ans \in AvailabilityAnswers(Normalize(archive_arg)), d \in Ticks :
          /\ avail_seen' = ans
          /\ avail_requests' = avail_requests + 1
          /\ utcnow' = utcnow + d
          /\ LET existing_archive == CheckRecentArchive(ans, utcnow')
             IN  IF Truthy(existing_archive)
                 THEN /\ apc' = "done"
                      /\ aresult' = ArchiveReturned(existing_archive)
                 ELSE /\ apc' = "save"
                      /\ aresult' = aresult
    /\ UNCHANGED <<archive_arg, save_requests, save_status, save_url, prev_call>>
    /\ UNCHANGED <<rvars, bvars>>

\* Lines 54-101: the save request and what archive_url makes of its answer.
SaveRequest ==
    /\ apc = "save"
    /\ \E ans \in SaveAnswers(Normalize(archive_arg)), d \in Ticks :
          /\ save_requests' = save_requests + 1
          /\ save_status' = ans.status
          /\ save_url' = ans.url
          /\ utcnow' = utcnow + d
          /\ apc' = "done"
          /\ aresult' = ClassifySave(ans, Normalize(archive_arg), utcnow')
    /\ UNCHANGED <<archive_arg, avail_seen, avail_requests, prev_call>>
    /\ UNCHANGED <<rvars, bvars>>

\* The archiver is not called.
ArchiverIdle ==
    /\ archive_arg = <<>> /\ apc = "off" /\ utcnow = 0 /\ avail_seen = NoAnswer
    /\ avail_requests = 0 /\ save_requests = 0 /\ save_status = 0 /\ save_url = None
    /\ aresult = NoArchiveResult /\ prev_call = NoCall

ArchiverInit ==
    /\ archive_arg = <<>>
    /\ apc = "idle"
    /\ utcnow = 0
    /\ avail_seen = NoAnswer
    /\ avail_requests = 0
    /\ save_requests = 0
    /\ save_status = 0
    /\ save_url = None
    /\ aresult = NoArchiveResult
    /\ prev_call = NoCall

ArchiverNext ==
    \/ ArchiveStart
    \/ CheckRecent
    \/ SaveRequest



(* ------------------------------------------------------------------ *)
(* process_urls, resolve_with_retries, archive_with_retries            *)
(* ------------------------------------------------------------------ *)

\* Largest number of rows of the input dataframe.
MaxRows == 3

\* Largest max_retries of a run.
MaxRetries == 2

\* The clock of the batch model stops at MaxElapsed milliseconds.
MaxElapsed == 12000

\* estimated_time_per_url = 0.5, in milliseconds
EstimatedPerUrl == 500

\* The 8 of int(8 / estimated_time_per_url), in milliseconds
SafeBudget == 8000

\* "elapsed_time + estimated_remaining_time > 9", in milliseconds
Deadline == 9000

\* The 0.3 seconds reserved per item in max_delay, in milliseconds
ProcessingReserve == 300

\* The 0.1 second cap of actual_delay, in milliseconds
DelayCap == 100

\* time.sleep(1) between retries in app.py, in milliseconds
RetrySleepApp == 1000

\* time.sleep(0.1) between retries in index.py, in milliseconds
RetrySleepIndex == 100

Min(a, b) == IF a <= b THEN a ELSE b

Max(a, b) == IF a >= b THEN a ELSE b

\* The value of a result column before process_urls sets it.
Unset == <<"NaN">>

\* The URL cells of the input rows: missing (NaN), empty, blank, a host name.
Cells == { None, <<>>, <<" ">>, <<"a">> }

\* Where every redirect walk of the batch model ends.
Destination == <<"https://", "b">>

\* Mutant of ResolveUrlOutcomes: resolve_url may return an empty final URL.
ResolveUrlOutcomesEmpty(u) ==
    IF InvalidArgument(u)
    THEN {Raised("Invalid URL provided")}
    ELSE IF Netloc(Normalize(u)) = <<>>
    THEN {Raised("Invalid URL format")}
    ELSE { Raised(ErrorMessage("Timeout")), Raised(ErrorMessage("ConnectionError")),
           Returned(Destination, <<Normalize(u), Destination>>),
           Returned(<<>>, <<Normalize(u)>>) }

\* What one call resolve_url(u) can do: raise for an argument it rejects,
\* else raise for a transport failure or return (final, chain) with the
\* normalized argument first and the final URL last.
ResolveUrlOutcomes(u) ==
    IF InvalidArgument(u)
    THEN {Raised("Invalid URL provided")}
    ELSE IF Netloc(Normalize(u)) = <<>>
    THEN {Raised("Invalid URL format")}
    ELSE { Raised(ErrorMessage("Timeout")), Raised(ErrorMessage("ConnectionError")),
           Returned(Destination, <<Normalize(u), Destination>>) }

\* What one call archive_url(u) can do: return a snapshot reference, return
\* None, or raise.
ArchiveUrlOutcomes(u) ==
    { ArchiveReturned(<<"https://">> \o SnapshotMarker \o <<"20240101000000", "/">> \o u),
      ArchiveReturned(None),
      ArchiveRaised(<<"Rate limited by Wayback Machine. Please slow down requests.">>) }

\* str(e)[:30] of the messages archive_url raises.
First30(msg) ==
    CASE msg = "Rate limited by Wayback Machine. Please slow down requests."
            -> "Rate limited by Wayback Machin"
      [] msg = "Access forbidden - URL may be blocked from archiving"
            -> "Access forbidden - URL may be "
      [] msg = "Connection error - unable to reach Wayback Machine"
            -> "Connection error - unable to r"
      [] OTHER -> msg

\* ' -> '.join(chain)
RECURSIVE Join(_)
Join(chain) ==
    IF chain = <<>> THEN <<>>
    ELSE IF Len(chain) = 1 THEN chain[1]
    ELSE chain[1] \o <<" -> ">> \o Join(Tail(chain))

\* The time of a network call that answers late, in milliseconds: it leaves
\* less than the per-item estimate before the deadline.
SlowCall == 8650

\* The time of a network call that leaves just the per-item estimate before
\* the deadline, in milliseconds.
NearCall == 8450

\* The time one network call takes, in milliseconds.  app.py never reads the clock.
Durations ==
    IF deployment = "app" THEN {0}
    ELSE {d \in {0, NearCall, SlowCall} : elapsed + d <= MaxElapsed}

\* time.sleep(ms), seen by the clock index.py reads.
After(t, ms) == IF deployment = "app" THEN t ELSE Min(t + ms, Max(t, MaxElapsed))

RetrySleep == IF deployment = "app" THEN RetrySleepApp ELSE RetrySleepIndex

\* The rows with a non-empty URL, in order.
RECURSIVE NonEmptyRows(_, _)
NonEmptyRows(frame, k) ==
    IF k > Len(frame) THEN <<>>
    ELSE IF frame[k].url # <<>> /\ frame[k].url # None
         THEN <<k>> \o NonEmptyRows(frame, k + 1)
         ELSE NonEmptyRows(frame, k + 1)

\* DataFrame.head(n)
Head_(seq, n) == SubSeq(seq, 1, Min(Len(seq), n))

\* Mutant of Admitted: index.py takes every row with a URL, without the cap.
AdmittedNoCap(frame) == NonEmptyRows(frame, 1)

\* Lines 476-496 of index.py, line 145 of app.py: the rows the run takes.
Admitted(frame) ==
    IF deployment = "app"
    THEN NonEmptyRows(frame, 1)
    ELSE LET first == Head_(NonEmptyRows(frame, 1), max_urls)
             max_safe_urls == Min(max_urls, SafeBudget \div EstimatedPerUrl)
         IN  IF Len(first) > max_safe_urls THEN Head_(first, max_safe_urls) ELSE first

\* Mutant of CurrentRow: the loop takes the admitted rows last to first.
CurrentRowBackwards == urls_to_process[Len(urls_to_process) - pos]

\* The row the loop is at.
CurrentRow == urls_to_process[pos + 1]

\* original_url, as handed to resolve_with_retries.
OriginalUrl ==
    IF deployment = "app" THEN df[CurrentRow].url ELSE Strip(df[CurrentRow].url)

NoResolved == [final_url |-> None, chain |-> <<>>]

\* No loop body has ended yet.
NoWait == [at |-> 0, ms |-> 0]

\* What resolve_with_retries ended with: the values it returned, the exception
\* it raised, or (None, []) without a call.
LastOutcome(res, raised) ==
    IF res # NoResolved THEN Returned(res.final_url, res.chain)
    ELSE IF raised # "" THEN Raised(raised)
    ELSE Returned(None, <<>>)

\* The sleep between two items, in milliseconds (0: no sleep).
ItemSleep(done, t) ==
    IF deployment = "app"
    THEN IF done < total_urls THEN delay ELSE 0
    ELSE IF done < total_urls /\ delay > 0
         THEN LET remaining_time == Deadline - t
                  remaining_urls_count == total_urls - done
                  max_delay == (remaining_time \div Max(remaining_urls_count, 1)) - ProcessingReserve
                  actual_delay == Min(Min(delay, max_delay), DelayCap)
              IN  IF actual_delay > 0 THEN actual_delay ELSE 0
         ELSE 0

\* Mutant of Sleeps: the loop sleeps after every item, the last one too.
SleepsAfterEvery(done, t) == TRUE

\* Does the loop sleep after the item that made the count `done`?
Sleeps(done, t) ==
    IF deployment = "app" THEN done < total_urls ELSE ItemSleep(done, t) > 0

\* The end of one loop body: processed_count += 1, the rate-limit sleep, and
\* the next row or the end of the loop.  t is the clock when the row is written.
EndItem(t) ==
    /\ processed_count' = processed_count + 1
    /\ pos' = pos + 1
    /\ sleeps' = IF Sleeps(processed_count', t) THEN sleeps + 1 ELSE sleeps
    /\ last_wait' = [at |-> t, ms |-> ItemSleep(processed_count', t)]
    /\ outcome_log' = Append(outcome_log, LastOutcome(resolved', last_raised'))
    /\ elapsed' = After(t, ItemSleep(processed_count', t))
    /\ bpc' = IF pos' < Len(urls_to_process) THEN "loop" ELSE "done"
    /\ attempt' = attempt

\* Mutant of RecordSuccess: index.py writes original_url as the chain.
RecordSuccessIndexOriginal(wayback_url, t) ==
    /\ df' = [df EXCEPT ![CurrentRow] =
                [@ EXCEPT !.resolved_url = resolved'.final_url,
                          !.redirect_chain =
                              IF deployment = "index"
                              THEN OriginalUrl
                              ELSE Join(resolved'.chain),
                          !.wayback_url = wayback_url,
                          !.status = "Success",
                          !.error_message = ""]]
    /\ success_count' = success_count + 1
    /\ error_count' = error_count
    /\ EndItem(t)

\* Mutant of RecordSuccess: the row is counted as an error.
RecordSuccessAsError(wayback_url, t) ==
    /\ df' = [df EXCEPT ![CurrentRow] =
                [@ EXCEPT !.resolved_url = resolved'.final_url,
                          !.redirect_chain =
                              IF deployment = "index" /\ resolved'.chain = <<>>
                              THEN OriginalUrl
                              ELSE Join(resolved'.chain),
                          !.wayback_url = wayback_url,
                          !.status = "Success",
                          !.error_message = ""]]
    /\ success_count' = success_count
    /\ error_count' = error_count + 1
    /\ EndItem(t)

\* Mutant of RecordSuccess: a row whose archiving gave no snapshot is marked Error.
RecordSuccessDowngraded(wayback_url, t) ==
    /\ df' = [df EXCEPT ![CurrentRow] =
                [@ EXCEPT !.resolved_url = resolved'.final_url,
                          !.redirect_chain = Join(resolved'.chain),
                          !.wayback_url = wayback_url,
                          !.status = IF wayback_url # <<>> /\ wayback_url[1] = "https://"
                                     THEN "Success" ELSE "Error",
                          !.error_message = ""]]
    /\ success_count' = success_count + 1
    /\ error_count' = error_count
    /\ EndItem(t)

\* Lines 193-199 of app.py, 525-531 of index.py.
RecordSuccess(wayback_url, t) ==
    /\ df' = [df EXCEPT ![CurrentRow] =
                [@ EXCEPT !.resolved_url = resolved'.final_url,
                          !.redirect_chain =
                              IF deployment = "index" /\ resolved'.chain = <<>>
                              THEN OriginalUrl
                              ELSE Join(resolved'.chain),
                          !.wayback_url = wayback_url,
                          !.status = "Success",
                          !.error_message = ""]]
    /\ success_count' = success_count + 1
    /\ error_count' = error_count
    /\ EndItem(t)

\* Mutant of RecordFailed: the row is marked but not counted.
RecordFailedUncounted(t) ==
    /\ df' = [df EXCEPT ![CurrentRow] =
                [@ EXCEPT !.status = "Failed",
                          !.error_message = "Unable to resolve URL"]]
    /\ error_count' = error_count
    /\ success_count' = success_count
    /\ EndItem(t)

\* Lines 201-203 of app.py, 533-535 of index.py.
RecordFailed(t) ==
    /\ df' = [df EXCEPT ![CurrentRow] =
                [@ EXCEPT !.status = "Failed",
                          !.error_message = "Unable to resolve URL"]]
    /\ error_count' = error_count + 1
    /\ success_count' = success_count
    /\ EndItem(t)

\* Mutant of RecordError: the exception is not caught and leaves process_urls.
RecordErrorUncaught(msg, t) ==
    /\ bpc' = "aborted"
    /\ UNCHANGED <<df, processed_count, pos, sleeps, last_wait, outcome_log, success_count, error_count, attempt>>
    /\ elapsed' = t

\* Mutant of RecordError: the URL the walk started from is written as the chain.
RecordErrorKeepsChain(msg, t) ==
    /\ df' = [df EXCEPT ![CurrentRow] =
                [@ EXCEPT !.status = "Error",
                          !.error_message = msg,
                          !.redirect_chain = Join(<<Normalize(OriginalUrl)>>)]]
    /\ error_count' = error_count + 1
    /\ success_count' = success_count
    /\ EndItem(t)

\* Mutant of RecordError: the rows finished before are marked as well.
RecordErrorSpreads(msg, t) ==
    /\ df' = [k \in 1..Len(df) |->
                IF \E p \in 1..(pos + 1) : urls_to_process[p] = k
                THEN [df[k] EXCEPT !.status = "Error", !.error_message = msg]
                ELSE df[k]]
    /\ error_count' = error_count + 1
    /\ success_count' = success_count
    /\ EndItem(t)

\* Lines 205-208 of app.py, 537-540 of index.py: except Exception as e.
RecordError(msg, t) ==
    /\ df' = [df EXCEPT ![CurrentRow] =
                [@ EXCEPT !.status = "Error",
                          !.error_message = msg]]
    /\ error_count' = error_count + 1
    /\ success_count' = success_count
    /\ EndItem(t)

\* The four fields the loop body of app.py writes for what
\* resolve_with_retries ended with (lines 186-207).
AppRow(out) ==
    IF out.kind = "return"
    THEN IF Truthy(out.final_url)
         THEN [status |-> "Success", error_message |-> "",
               resolved_url |-> out.final_url, redirect_chain |-> Join(out.chain)]
         ELSE [status |-> "Failed", error_message |-> "Unable to resolve URL",
               resolved_url |-> <<>>, redirect_chain |-> <<>>]
    ELSE [status |-> "Error", error_message |-> out.error,
          resolved_url |-> <<>>, redirect_chain |-> <<>>]

\* The same for the loop body of index.py (lines 520-539).
IndexRow(out, original_url) ==
    IF out.kind = "return"
    THEN IF Truthy(out.final_url)
         THEN [status |-> "Success", error_message |-> "",
               resolved_url |-> out.final_url,
               redirect_chain |-> IF out.chain # <<>> THEN Join(out.chain) ELSE original_url]
         ELSE [status |-> "Failed", error_message |-> "Unable to resolve URL",
               resolved_url |-> <<>>, redirect_chain |-> <<>>]
    ELSE [status |-> "Error", error_message |-> out.error,
          resolved_url |-> <<>>, redirect_chain |-> <<>>]

\* Lines 137-159 of app.py, 469-496 of index.py: the result columns, the
\* admitted rows, the counters.
BatchStart ==
    /\ bpc = "start"
    /\ df' = [k \in 1..Len(df) |->
                [df[k] EXCEPT !.resolved_url = <<>>, !.redirect_chain = <<>>,
                              !.wayback_url = <<>>, !.status = "", !.error_message = ""]]
    /\ urls_to_process' = Admitted(df)
    /\ total_urls' = Len(urls_to_process')
    /\ processed_count' = 0
    /\ success_count' = 0
    /\ error_count' = 0
    /\ bpc' = IF total_urls' = 0 THEN "done" ELSE "loop"
    /\ UNCHANGED <<deployment, max_retries, max_urls, delay, pos, elapsed, attempt,
                   resolved, resolve_calls, retry_sleeps, archive_calls, archive_url_arg, last_raised,
                   archive_outcome, sleeps, last_wait, outcome_log>>
    /\ UNCHANGED <<rvars, avars>>

\* The deadline test of index.py, lines 500-504.
DeadlineTrips ==
    /\ deployment = "index"
    /\ elapsed + (total_urls - processed_count) * EstimatedPerUrl > Deadline

\* Mutant of SkipFrom: every admitted row is marked, the finished ones too.
SkipFromFirst(frame, done) ==
    [k \in 1..Len(frame) |->
        IF \E p \in 1..Len(urls_to_process) : urls_to_process[p] = k
        THEN [frame[k] EXCEPT !.status = "Skipped",
                              !.error_message = "Skipped to avoid timeout - process in smaller batches"]
        ELSE frame[k]]

\* Mutant of SkipFrom: the pass starts one row late.
SkipFromNext(frame, done) ==
    [k \in 1..Len(frame) |->
        IF \E p \in (done + 2)..Len(urls_to_process) : urls_to_process[p] = k
        THEN [frame[k] EXCEPT !.status = "Skipped",
                              !.error_message = "Skipped to avoid timeout - process in smaller batches"]
        ELSE frame[k]]

\* Lines 506-511 of index.py: urls_to_process.iloc[processed_count:] all Skipped.
SkipFrom(frame, done) ==
    [k \in 1..Len(frame) |->
        IF \E p \in (done + 1)..Len(urls_to_process) : urls_to_process[p] = k
        THEN [frame[k] EXCEPT !.status = "Skipped",
                              !.error_message = "Skipped to avoid timeout - process in smaller batches"]
        ELSE frame[k]]

\* Lines 498-512 of index.py: the deadline test trips, the rest is skipped, break.
SkipRemaining ==
    /\ bpc = "loop"
    /\ DeadlineTrips
    /\ df' = SkipFrom(df, processed_count)
    /\ error_count' = error_count + (Len(urls_to_process) - processed_count)
    /\ processed_count' = processed_count + (Len(urls_to_process) - processed_count)
    /\ bpc' = "done"
    /\ UNCHANGED <<deployment, max_retries, max_urls, delay, urls_to_process, total_urls,
                   pos, success_count, elapsed, attempt, resolved, resolve_calls, retry_sleeps,
                   archive_calls, archive_url_arg, last_raised, archive_outcome, sleeps, last_wait, outcome_log>>
    /\ UNCHANGED <<rvars, avars>>

\* Lines 175-184 of app.py, 498-518 of index.py: the loop takes the next row
\* and enters resolve_with_retries.
BeginItem ==
    /\ bpc = "loop"
    /\ ~DeadlineTrips
    /\ bpc' = "resolve"
    /\ attempt' = 0
    /\ resolved' = NoResolved
    /\ resolve_calls' = 0
    /\ retry_sleeps' = 0
    /\ archive_calls' = 0
    /\ archive_url_arg' = None
    /\ last_raised' = ""
    /\ archive_outcome' = "none"
    /\ UNCHANGED <<deployment, df, max_retries, max_urls, delay, urls_to_process,
                   total_urls, pos, processed_count, success_count, error_count,
                   elapsed, sleeps, last_wait, outcome_log>>
    /\ UNCHANGED <<rvars, avars>>

\* Mutant of IsLastAttempt: the loops give up one attempt early.
IsLastAttemptEarly(n) == n + 1 >= max_retries

\* "if attempt == max_retries" of the retry loops.
IsLastAttempt(n) == n = max_retries

\* resolve_with_retries when range(max_retries + 1) is empty: return None, [].
ResolveNoAttempt ==
    /\ bpc = "resolve"
    /\ attempt > max_retries
    /\ resolved' = NoResolved
    /\ UNCHANGED <<deployment, max_retries, max_urls, delay, urls_to_process,
                   total_urls, resolve_calls, retry_sleeps, archive_calls, archive_url_arg,
                   last_raised, archive_outcome>>
    /\ RecordFailed(elapsed)
    /\ UNCHANGED <<rvars, avars>>

\* The messages of the exceptions resolve_url raises for an argument it rejects.
InvalidMessages == {"Invalid URL provided", "Invalid URL format"}

\* Mutant of ResolveAttempt: an argument resolve_url rejects is not tried again.
ResolveAttemptNoRetryInvalid ==
    /\ bpc = "resolve"
    /\ attempt <= max_retries
    /\ \E out \in ResolveUrlOutcomes(OriginalUrl), d \in Durations :
          /\ resolve_calls' = resolve_calls + 1
          /\ retry_sleeps' = IF out.kind = "raise" /\ ~(IsLastAttempt(attempt) \/ out.error \in InvalidMessages)
                             THEN retry_sleeps + 1 ELSE retry_sleeps
          /\ IF out.kind = "return"
             THEN /\ resolved' = [final_url |-> out.final_url, chain |-> out.chain]
                  /\ last_raised' = last_raised
                  /\ IF Truthy(out.final_url)
                     THEN /\ bpc' = "archive"
                          /\ attempt' = 0
                          /\ elapsed' = elapsed + d
                          /\ UNCHANGED <<df, processed_count, pos, sleeps, last_wait, outcome_log,
                                         success_count, error_count>>
                     ELSE RecordFailed(elapsed + d)
             ELSE /\ resolved' = resolved
                  /\ last_raised' = out.error
                  /\ IF IsLastAttempt(attempt) \/ out.error \in InvalidMessages
                     THEN RecordError(out.error, elapsed + d)
                     ELSE /\ attempt' = attempt + 1
                          /\ elapsed' = After(elapsed + d, RetrySleep)
                          /\ UNCHANGED <<bpc, df, processed_count, pos, sleeps, last_wait, outcome_log,
                                         success_count, error_count>>
    /\ UNCHANGED <<deployment, max_retries, max_urls, delay, urls_to_process,
                   total_urls, archive_calls, archive_url_arg, archive_outcome>>
    /\ UNCHANGED <<rvars, avars>>

\* One turn of the loop of resolve_with_retries: a call of resolve_url.
ResolveAttempt ==
    /\ bpc = "resolve"
    /\ attempt <= max_retries
    /\ \E out \in ResolveUrlOutcomes(OriginalUrl), d \in Durations :
          /\ resolve_calls' = resolve_calls + 1
          /\ retry_sleeps' = IF out.kind = "raise" /\ ~IsLastAttempt(attempt)
                             THEN retry_sleeps + 1 ELSE retry_sleeps
          /\ IF out.kind = "return"
             THEN /\ resolved' = [final_url |-> out.final_url, chain |-> out.chain]
                  /\ last_raised' = last_raised
                  /\ IF Truthy(out.final_url)
                     THEN /\ bpc' = "archive"
                          /\ attempt' = 0
                          /\ elapsed' = elapsed + d
                          /\ UNCHANGED <<df, processed_count, pos, sleeps, last_wait, outcome_log,
                                         success_count, error_count>>
                     ELSE RecordFailed(elapsed + d)
             ELSE /\ resolved' = resolved
                  /\ last_raised' = out.error
                  /\ IF IsLastAttempt(attempt)
                     THEN RecordError(out.error, elapsed + d)
                     ELSE /\ attempt' = attempt + 1
                          /\ elapsed' = After(elapsed + d, RetrySleep)
                          /\ UNCHANGED <<bpc, df, processed_count, pos, sleeps, last_wait, outcome_log,
                                         success_count, error_count>>
    /\ UNCHANGED <<deployment, max_retries, max_urls, delay, urls_to_process,
                   total_urls, archive_calls, archive_url_arg, archive_outcome>>
    /\ UNCHANGED <<rvars, avars>>

\* str.startswith(('Failed', 'Error', 'Timeout')) of what archive_url returned.
LooksFailed(v) == Len(v) >= 1 /\ v[1] \in {"Failed", "Error", "Timeout"}

\* One turn of the loop of archive_with_retries of app.py: the value it
\* returns, or "retry".
ArchiveTurnApp(out, n) ==
    IF out.kind = "return" THEN [done |-> TRUE, value |-> out.value, slept |-> FALSE]
    ELSE IF IsLastAttempt(n) THEN [done |-> TRUE, value |-> None, slept |-> FALSE]
    ELSE [done |-> FALSE, value |-> None, slept |-> TRUE]

\* Mutant of ArchiveTurnIndex: a returned value ends the loop on the last
\* attempt only.
ArchiveTurnIndexRetriesAll(out, n) ==
    IF out.kind = "return"
    THEN IF IsLastAttempt(n)
         THEN [done |-> TRUE,
               value |-> IF Truthy(out.value) THEN out.value
                         ELSE <<"Failed to archive after retries">>,
               slept |-> FALSE]
         ELSE [done |-> FALSE, value |-> None, slept |-> FALSE]
    ELSE IF IsLastAttempt(n)
    THEN [done |-> TRUE, value |-> <<"Archive error: ", First30(out.error[1]), "...">>,
          slept |-> FALSE]
    ELSE [done |-> FALSE, value |-> None, slept |-> TRUE]

\* One turn of the loop of archive_with_retries of index.py.
ArchiveTurnIndex(out, n) ==
    IF out.kind = "return"
    THEN IF Truthy(out.value) /\ ~LooksFailed(out.value)
         THEN [done |-> TRUE, value |-> out.value, slept |-> FALSE]
         ELSE IF IsLastAttempt(n)
         THEN [done |-> TRUE,
               value |-> IF Truthy(out.value) THEN out.value
                         ELSE <<"Failed to archive after retries">>,
               slept |-> FALSE]
         ELSE [done |-> FALSE, value |-> None, slept |-> FALSE]
    ELSE IF IsLastAttempt(n)
    THEN [done |-> TRUE, value |-> <<"Archive error: ", First30(out.error[1]), "...">>,
          slept |-> FALSE]
    ELSE [done |-> FALSE, value |-> None, slept |-> TRUE]

\* Mutant of WaybackField: the value of archive_with_retries is written as it is.
WaybackFieldRaw(v) == IF v = None THEN <<>> ELSE v

\* "wayback_url if wayback_url else 'Failed to archive'"
WaybackField(v) == IF Truthy(v) THEN v ELSE <<"Failed to archive">>

\* Mutant of ArchiveAttempt: archive_url is called with the URL of the row.
ArchiveAttemptOriginal ==
    /\ bpc = "archive"
    /\ attempt <= max_retries
    /\ \E out \in ArchiveUrlOutcomes(OriginalUrl), d \in Durations :
          LET turn == IF deployment = "app"
                      THEN ArchiveTurnApp(out, attempt)
                      ELSE ArchiveTurnIndex(out, attempt)
          IN  /\ archive_calls' = archive_calls + 1
              /\ archive_url_arg' = OriginalUrl
              /\ archive_outcome' = IF out.kind = "raise" THEN "raised"
                                    ELSE IF Truthy(out.value) THEN "snapshot"
                                    ELSE "no snapshot"
              /\ resolved' = resolved
              /\ IF turn.done
                 THEN RecordSuccess(WaybackField(turn.value), elapsed + d)
                 ELSE /\ attempt' = attempt + 1
                      /\ elapsed' = IF turn.slept THEN After(elapsed + d, RetrySleep)
                                    ELSE elapsed + d
                      /\ UNCHANGED <<bpc, df, processed_count, pos, sleeps, last_wait, outcome_log,
                                     success_count, error_count>>
    /\ UNCHANGED <<deployment, max_retries, max_urls, delay, urls_to_process,
                   total_urls, resolve_calls, retry_sleeps, last_raised>>
    /\ UNCHANGED <<rvars, avars>>

\* One turn of the loop of archive_with_retries: a call of archive_url; when
\* the loop ends, the row is written.
ArchiveAttempt ==
    /\ bpc = "archive"
    /\ attempt <= max_retries
    /\ \E out \in ArchiveUrlOutcomes(resolved.final_url), d \in Durations :
          LET turn == IF deployment = "app"
                      THEN ArchiveTurnApp(out, attempt)
                      ELSE ArchiveTurnIndex(out, attempt)
          IN  /\ archive_calls' = archive_calls + 1
              /\ archive_url_arg' = resolved.final_url
              /\ archive_outcome' = IF out.kind = "raise" THEN "raised"
                                    ELSE IF Truthy(out.value) THEN "snapshot"
                                    ELSE "no snapshot"
              /\ resolved' = resolved
              /\ IF turn.done
                 THEN RecordSuccess(WaybackField(turn.value), elapsed + d)
                 ELSE /\ attempt' = attempt + 1
                      /\ elapsed' = IF turn.slept THEN After(elapsed + d, RetrySleep)
                                    ELSE elapsed + d
                      /\ UNCHANGED <<bpc, df, processed_count, pos, sleeps, last_wait, outcome_log,
                                     success_count, error_count>>
    /\ UNCHANGED <<deployment, max_retries, max_urls, delay, urls_to_process,
                   total_urls, resolve_calls, retry_sleeps, last_raised>>
    /\ UNCHANGED <<rvars, avars>>

\* int(request.form.get('retries', 1)) of index.py
DefaultRetries == 1

\* The delays of a run, in milliseconds.
Delays == {0, 100}

\* The batch drivers are not running.
BatchIdle ==
    /\ deployment = "none" /\ df = <<>> /\ max_retries = 0 /\ max_urls = 0 /\ delay = 0
    /\ bpc = "off" /\ urls_to_process = <<>> /\ total_urls = 0 /\ pos = 0
    /\ processed_count = 0 /\ success_count = 0 /\ error_count = 0 /\ elapsed = 0
    /\ attempt = 0 /\ resolved = NoResolved /\ resolve_calls = 0 /\ archive_calls = 0
    /\ retry_sleeps = 0
    /\ archive_url_arg = None
    /\ last_raised = "" /\ archive_outcome = "none" /\ sleeps = 0
    /\ last_wait = NoWait
    /\ outcome_log = <<>>

\* A call of process_urls: app.py takes max_retries from a number input of
\* 0..5; index.py takes int() of a form field, here a negative value, 0 and
\* the default.
BatchInit ==
    /\ deployment \in {"app", "index"}
    /\ \E n \in 1..MaxRows :
          df \in [1..n -> {[url |-> c, resolved_url |-> Unset, redirect_chain |-> Unset,
                            wayback_url |-> Unset, status |-> "NaN",
                            error_message |-> "NaN"] : c \in Cells}]
    /\ max_retries \in IF deployment = "app" THEN 0..MaxRetries ELSE {-1, 0, DefaultRetries}
    /\ max_urls \in IF deployment = "app" THEN {0} ELSE {2, 20}
    /\ delay \in Delays
    /\ bpc = "start"
    /\ urls_to_process = <<>>
    /\ total_urls = 0
    /\ pos = 0
    /\ processed_count = 0
    /\ success_count = 0
    /\ error_count = 0
    /\ elapsed = 0
    /\ attempt = 0
    /\ resolved = NoResolved
    /\ resolve_calls = 0
    /\ retry_sleeps = 0
    /\ archive_calls = 0
    /\ archive_url_arg = None
    /\ last_raised = ""
    /\ archive_outcome = "none"
    /\ sleeps = 0
    /\ last_wait = NoWait
    /\ outcome_log = <<>>

BatchNext ==
    \/ BatchStart
    \/ SkipRemaining
    \/ BeginItem
    \/ ResolveNoAttempt
    \/ ResolveAttempt
    \/ ArchiveAttempt

InitResolver == ResolverInit /\ ArchiverIdle /\ BatchIdle

\* resolve_url alone: one call, every argument, every server behaviour.
SpecResolver == InitResolver /\ [][ResolverNext]_vars

InitArchiver == ArchiverInit /\ ResolverIdle /\ BatchIdle

\* One archiver called again and again, against every behaviour of the
\* availability and save endpoints.
SpecArchiver == InitArchiver /\ [][ArchiverNext]_vars

InitBatch == BatchInit /\ ResolverIdle /\ ArchiverIdle

\* One run of process_urls of either deployment, over every dataframe of up
\* to MaxRows rows and every outcome of each resolve_url and archive_url call.
SpecBatch == InitBatch /\ [][BatchNext]_vars

(* ------------------------------------------------------------------ *)
(* Properties of resolve_url                                           *)
(* ------------------------------------------------------------------ *)

\* A response that is a redirect carrying a Location.
RedirectWithLocation(r) ==
    /\ r.exc = "none"
    /\ r.status \in {301, 302, 303, 307, 308}
    /\ r.location # None
    /\ r.location # <<>>

\* C1, the returned value: the chain is non-empty, starts with the
\* normalized input, and the final URL is its last entry.
C1_ReturnShape ==
    rpc = "returned" =>
        /\ rresult.kind = "return"
        /\ rresult.chain = redirect_chain
        /\ Len(rresult.chain) >= 1
        /\ rresult.chain[1] = Normalize(url)
        /\ rresult.final_url = rresult.chain[Len(rresult.chain)]

\* C1, the growth of the chain: it is created as [normalized input], and
\* after that it only grows by one entry at its end, in the step in which a
\* request to its last entry was answered by a redirect status carrying a
\* Location, the new entry being that Location (made absolute or as sent).
C1_ChainStep ==
    redirect_chain' # redirect_chain =>
        IF redirect_chain = <<>>
        THEN redirect_chain' = <<Normalize(url)>>
        ELSE /\ Len(redirect_chain') = Len(redirect_chain) + 1
             /\ SubSeq(redirect_chain', 1, Len(redirect_chain)) = redirect_chain
             /\ RedirectWithLocation(last')
             /\ last'.url = redirect_chain[Len(redirect_chain)]
             /\ redirect_chain'[Len(redirect_chain')] \in
                    {last'.location, HeadTarget(last'.location, last'.url)}

\* C1: every call of resolve_url that returns gives a non-empty chain whose
\* first entry is the normalized input, whose later entries were each
\* appended in response to a redirect status (301/302/303/307/308) carrying
\* a Location, and whose last entry is the returned final URL.
C1_ChainInvariant == [](C1_ReturnShape) /\ [][C1_ChainStep]_vars

\* C1 witness: a call returned a chain of three entries.
C1_Witness == rpc = "returned" /\ Len(rresult.chain) = 3

\* The second HEAD request of a call went to the second chain entry B and
\* was answered by a redirect back to the first entry A (so the first HEAD
\* request, to A, was answered by a redirect to B).
CircularScenario ==
    /\ head_count = 2
    /\ get_count = 0
    /\ Len(redirect_chain) >= 2
    /\ last.method = "HEAD"
    /\ RedirectWithLocation(last)
    /\ last.url = redirect_chain[2]
    /\ HeadTarget(last.location, last.url) = redirect_chain[1]

\* C2: when A redirects to B and B redirects back to A, resolve_url(A)
\* has returned chain [A, B] with final URL B right after the second HEAD
\* request, and issues no request after it.
C2_CircularStops ==
    CircularScenario =>
        /\ rpc = "returned"
        /\ rresult.chain = <<Normalize(url), last.url>>
        /\ rresult.final_url = last.url
        /\ ~ENABLED ResolverNext

\* C2 witness: the circular scenario happened.
C2_Witness == CircularScenario /\ rpc = "returned"

\* C3: with max_redirects = N and every HEAD answered by a redirect to a URL
\* not yet in the chain, resolve_url raises nothing, returns exactly when N
\* HEAD requests were made, and then returns the N-th target as final URL
\* with a chain of N + 1 entries.
C3_HopLimit ==
    (fresh_only /\ redirect_chain # <<>>) =>
        /\ rpc \in {"head", "returned"}
        /\ (rpc = "returned") <=> (head_count = max_redirects)
        /\ Len(redirect_chain) = head_count + 1
        /\ rpc = "returned" =>
              /\ rresult.kind = "return"
              /\ Len(rresult.chain) = max_redirects + 1
              /\ rresult.final_url = rresult.chain[max_redirects + 1]
              /\ ~ENABLED ResolverNext

\* C3 witness: the hop limit was exhausted with the largest max_redirects.
C3_Witness ==
    /\ fresh_only
    /\ rpc = "returned"
    /\ max_redirects = MaxRedirects
    /\ head_count = MaxRedirects

\* The only request of the call so far is one HEAD, answered 200.
FirstHeadOk ==
    /\ head_count = 1
    /\ get_count = 0
    /\ last.method = "HEAD"
    /\ last.exc = "none"
    /\ last.status = 200

\* C4: when the first HEAD request returns 200, resolve_url has returned
\* chain [normalizedInput] and final URL normalizedInput after that one
\* request, and issues no other.
C4_ImmediateOk ==
    FirstHeadOk =>
        /\ last.url = Normalize(url)
        /\ rpc = "returned"
        /\ rresult = Returned(Normalize(url), <<Normalize(url)>>)
        /\ ~ENABLED ResolverNext

\* C4 witness: a first HEAD answered 200, for an input that needed the scheme default.
C4_Witness == FirstHeadOk /\ url = <<"a">> /\ rpc = "returned"

\* C5 as stated: once the GET fallback was answered, resolve_url has
\* returned, and no HEAD request follows a GET request.
C5_StopsAfterGet ==
    /\ (last.method = "GET" /\ last.exc = "none") => rpc = "returned"
    /\ last.method = "HEAD" => get_count = 0

\* The GET fallback continues the walk: a verified GET answered by a redirect
\* whose Location is non-empty and not in the chain.
GetContinues(r, chain) ==
    /\ r.verify
    /\ RedirectWithLocation(r)
    /\ ~InChain(r.location, chain)

\* C5 amended, one step: a GET request is issued only to the URL whose HEAD
\* was just answered 405 (or whose verified GET just failed with a TLS
\* error); when it is answered, resolve_url returns with the chain
\* unchanged, unless the answer is a redirect to a new Location: then the
\* target is appended and becomes current, and the walk goes on with a HEAD
\* request to it if an iteration is left.
C5_GetStep ==
    (last' # last /\ last'.method = "GET") =>
        /\ last'.url = current_url
        /\ \/ last.method = "HEAD" /\ last.exc = "none" /\ last.status = 405
                 /\ last.url = current_url /\ last'.verify
           \/ last.method = "GET" /\ last.exc = "SSLError"
                 /\ last.url = current_url /\ ~last'.verify
        /\ last'.exc = "none" =>
              IF GetContinues(last', redirect_chain)
              THEN /\ Len(redirect_chain') = Len(redirect_chain) + 1
                   /\ current_url' = redirect_chain'[Len(redirect_chain')]
                   /\ IF i + 1 < max_redirects
                      THEN rpc' = "head" /\ i' = i + 1
                      ELSE rpc' = "returned"
              ELSE /\ rpc' = "returned"
                   /\ redirect_chain' = redirect_chain

\* C5 amended: after a HEAD answered 405 the resolver issues a GET to the
\* same URL and classifies its status once; it then returns, except that a
\* GET answered by a redirect to a Location not in the chain appends the
\* target and continues the walk with a HEAD request while hops remain.
C5_GetFallback == [][C5_GetStep]_vars

\* C5 witness: a HEAD request was answered after a GET fallback in the same call.
C5_Witness == last.method = "HEAD" /\ last.exc = "none" /\ get_count >= 1

(* ------------------------------------------------------------------ *)
(* Properties of archive_url                                           *)
(* ------------------------------------------------------------------ *)

\* The running call has finished, it is the second of two calls for the same
\* URL, the first returned a snapshot reference, and the availability
\* endpoint reported to the second an available snapshot with a URL and a
\* timestamp less than 24 hours old.
SecondCallFresh ==
    /\ apc = "done"
    /\ prev_call.arg = archive_arg
    /\ prev_call.result.kind = "return"
    /\ prev_call.result.value # None
    /\ avail_seen.kind = "closest"
    /\ avail_seen.available
    /\ avail_seen.url # None
    /\ avail_seen.tskind = "valid"
    /\ utcnow - avail_seen.timestamp < 86400

\* C10 as stated: the second call returns the reference the first call
\* returned, and issues no save request.
C10_SameReference ==
    SecondCallFresh =>
        /\ aresult = prev_call.result
        /\ save_requests = 0

\* C10 amended: the second call returns exactly the snapshot URL the
\* availability endpoint reported to it, after one availability request and
\* no save request; it is the first call's reference precisely when the
\* endpoint reported that reference.
C10_ReturnsReported ==
    SecondCallFresh =>
        /\ aresult.kind = "return"
        /\ aresult.value = avail_seen.url
        /\ avail_requests = 1
        /\ save_requests = 0
        /\ (aresult = prev_call.result) <=> (prev_call.result.value = avail_seen.url)

\* C10 witness: a second call answered from the freshness check with the
\* reference the first call returned.
C10_Witness == SecondCallFresh /\ aresult = prev_call.result

(* ------------------------------------------------------------------ *)
(* Properties of process_urls                                          *)
(* ------------------------------------------------------------------ *)

\* The loop has finished the body for at least one row and is between rows.
ItemFinished == bpc \in {"loop", "done"} /\ pos >= 1

\* The row of the item finished last.
FinishedRow == df[urls_to_process[pos]]

\* Some resolve_url call of the current item raised and none returned.
EveryAttemptRaised == last_raised # "" /\ resolved = NoResolved

C6_Counts ==
    /\ bpc \in {"loop", "resolve", "archive", "done"} => resolve_calls <= max_retries + 1
    /\ bpc = "archive" => archive_calls <= max_retries + 1 /\ Truthy(resolved.final_url)
    /\ ItemFinished /\ EveryAttemptRaised =>
          /\ resolve_calls = max_retries + 1
          /\ FinishedRow.status = "Error"
          /\ FinishedRow.error_message = last_raised
          /\ archive_calls = 0
    /\ ItemFinished /\ Truthy(resolved.final_url) => FinishedRow.status = "Success"
    /\ ItemFinished /\ FinishedRow.status = "Error" /\ pos < Len(urls_to_process) =>
          \/ bpc = "loop"
          \/ /\ deployment = "index"
             /\ \A p \in (pos + 1)..Len(urls_to_process) :
                   df[urls_to_process[p]].status = "Skipped"

C6_Step ==
    /\ resolve_calls' > resolve_calls =>
          /\ resolve_calls' = resolve_calls + 1
          /\ resolved = NoResolved
          /\ bpc = "resolve"
    /\ \A k \in 1..Len(df) :
          ItemFinished /\ bpc' # "done" /\ k \in {urls_to_process[p] : p \in 1..pos} =>
              df'[k] = df[k]

\* C6: resolve_url is called for one item at most max_retries+1 times and never
\* again once a call has returned; when every call raises, exactly max_retries+1
\* calls are made, the row gets status Error with the message of the last
\* exception and archive_url is not called; the loop goes on to the next row
\* (in index.py unless the deadline test marks the rest Skipped), rows written
\* earlier are left alone, and a row whose resolution returned a final URL gets
\* status Success.
C6_RetryThenError == [](C6_Counts) /\ [][C6_Step]_vars

C6_Witness ==
    /\ bpc = "done" /\ max_retries = 2 /\ Len(df) = 3 /\ pos = 3
    /\ df[1].status = "Success" /\ df[3].status = "Success"
    /\ df[2].status = "Error" /\ df[2].url = <<"a">>

\* The rows index.py marks when the deadline test trips at processed_count.
RowsFrom(done) == {urls_to_process[p] : p \in (done + 1)..Len(urls_to_process)}

C7_SkipStep ==
    bpc = "loop" /\ DeadlineTrips =>
        /\ \A k \in RowsFrom(processed_count) :
              /\ df'[k].status = "Skipped"
              /\ df'[k].error_message = "Skipped to avoid timeout - process in smaller batches"
        /\ \A k \in (1..Len(df)) \ RowsFrom(processed_count) : df'[k] = df[k]
        /\ processed_count' = total_urls
        /\ bpc' = "done"

C7_AtEnd ==
    bpc = "done" /\ deployment = "index" =>
        /\ processed_count = total_urls
        /\ \A p \in 1..Len(urls_to_process) : df[urls_to_process[p]].status # ""

TerminalStatuses == {"Success", "Failed", "Error", "Skipped"}

C8_Started ==
    /\ bpc # "aborted"
    /\ \A p \in 1..pos : df[urls_to_process[p]].status \in TerminalStatuses
    /\ bpc = "done" => pos + (processed_count - pos) = Len(urls_to_process)
    /\ bpc = "done" \/ ENABLED BatchNext

\* What is left of the run: rows not yet taken, then the calls the retry loops
\* of the current row may still make.
Remaining ==
    LET perRow == 2 * max_retries + 6
        rowsLeft == Len(urls_to_process) - pos
    IN  CASE bpc = "start" -> (Len(df) + 1) * perRow
          [] bpc = "loop" -> rowsLeft * perRow
          [] bpc = "resolve" -> rowsLeft * perRow - 1 - attempt
          [] bpc = "archive" -> rowsLeft * perRow - (max_retries + 3) - attempt
          [] OTHER -> -1

C8_Progress == Remaining' < Remaining /\ Remaining' >= -1

IsPlaceholder(v) ==
    /\ v # <<>>
    /\ v[1] \in {"Failed to archive", "Failed to archive after retries", "Archive error: "}

\* C9: a finished row has status Success exactly when resolve_url returned a
\* final URL for it, whatever archive_url did; when archiving gave no snapshot
\* the row holds a failure placeholder in wayback_url and still holds the final
\* URL and the joined redirect chain.
C9_SuccessIffResolved ==
    ItemFinished =>
        /\ FinishedRow.status = "Success" <=> Truthy(resolved.final_url)
        /\ Truthy(resolved.final_url) =>
              /\ archive_outcome \in {"snapshot", "no snapshot", "raised"}
              /\ FinishedRow.resolved_url = resolved.final_url
              /\ FinishedRow.redirect_chain = Join(resolved.chain)
              /\ archive_outcome # "snapshot" => IsPlaceholder(FinishedRow.wayback_url)
              /\ archive_outcome = "snapshot" => ~IsPlaceholder(FinishedRow.wayback_url)

C9_Witness ==
    /\ ItemFinished /\ FinishedRow.status = "Success"
    /\ archive_outcome = "raised" /\ archive_calls = 3
    /\ IsPlaceholder(FinishedRow.wayback_url)
    /\ FinishedRow.resolved_url = Destination

(* ------------------------------------------------------------------ *)
(* Properties of the input handling of resolve_url                     *)
(* ------------------------------------------------------------------ *)

\* The argument is a non-empty string.
NonEmptyString == url # NotAString /\ url # None /\ url # <<>>

\* What the claim expects resolve_url to work on: the trimmed argument, with
\* "https://" in front when the trimmed argument has no scheme.
Prefixed ==
    IF StartsWithScheme(Strip(url)) THEN Strip(url) ELSE <<"https://">> \o Strip(url)

\* The call has made exactly one request so far.
FirstRequestMade == head_count = 1 /\ get_count = 0 /\ last.method = "HEAD"

\* C11: for a non-empty string argument without a scheme, "https://" is put in
\* front (of the trimmed argument) before the host is validated: the host test
\* is made on the prefixed string, which is the first chain entry and the URL of
\* the first request; an argument that starts with http:// or https:// is only
\* trimmed.
C11_SchemeDefault ==
    rpc \notin {"idle", "call"} /\ NonEmptyString =>
        /\ (rpc = "raised" /\ rresult.error = "Invalid URL format") <=> Netloc(Prefixed) = <<>>
        /\ Netloc(Prefixed) # <<>> =>
              /\ redirect_chain # <<>>
              /\ redirect_chain[1] = Prefixed
              /\ redirect_chain[1][1] \in SchemeTokens
              /\ ~StartsWithScheme(Strip(url)) => Tail(redirect_chain[1]) = Strip(url)
              /\ StartsWithScheme(Strip(url)) => redirect_chain[1] = Strip(url)
        /\ FirstRequestMade => last.url = Prefixed

C11_Witness ==
    /\ url = <<" ", "a">> /\ FirstRequestMade
    /\ last.url = <<"https://", "a">> /\ redirect_chain[1] = <<"https://", "a">>

\* The argument is empty or not a string.
EmptyOrNotString == url \in {NotAString, None, <<>>}

\* C12: when the argument is empty, is not a string, or has an empty host
\* after the https:// default, resolve_url raises an invalid-input error
\* ("Invalid URL provided" / "Invalid URL format"), has made no request and has
\* built no chain.
C12_InvalidInput ==
    rpc \notin {"idle", "call"} /\ (EmptyOrNotString \/ Netloc(Prefixed) = <<>>) =>
        /\ rpc = "raised"
        /\ rresult.kind = "raise"
        /\ rresult.error = IF EmptyOrNotString THEN "Invalid URL provided"
                           ELSE "Invalid URL format"
        /\ rresult.chain = <<>>
        /\ redirect_chain = <<>>
        /\ head_count = 0 /\ get_count = 0 /\ last = NoRequest

C12_Witness ==
    /\ rpc = "raised" /\ url = <<"/", "x">>
    /\ rresult.error = "Invalid URL format" /\ head_count = 0

(* ------------------------------------------------------------------ *)
(* Properties of the input handling of archive_url                     *)
(* ------------------------------------------------------------------ *)

\* The trimmed argument of archive_url with the https:// default.
ArchivePrefixed ==
    IF StartsWithScheme(Strip(archive_arg)) THEN Strip(archive_arg)
    ELSE <<"https://">> \o Strip(archive_arg)

\* C13: an argument of archive_url that is empty, or that has an empty host
\* after the https:// default, makes the call raise an invalid-input error
\* without a request to the availability or the save endpoint.
C13_ValidatesLikeResolve ==
    apc \in {"check", "save", "done"}
        /\ (archive_arg = <<>> \/ Netloc(ArchivePrefixed) = <<>>) =>
            /\ avail_requests = 0
            /\ save_requests = 0
            /\ apc = "done" =>
                  /\ aresult.kind = "raise"
                  /\ aresult.error \in {<<"Invalid URL provided">>, <<"Invalid URL format">>}

\* The save endpoint answered the running call with HTTP 429.
SaveAnswered429 == apc = "done" /\ save_requests = 1 /\ save_status = 429

\* C14: when the save endpoint answers 429, archive_url returns a value and
\* raises nothing.
C14_RateLimitedReturned ==
    SaveAnswered429 => aresult.kind = "return"

(* ------------------------------------------------------------------ *)
(* Order and frame of process_urls                                     *)
(* ------------------------------------------------------------------ *)

\* The loop is inside the body for one row.
InItem == bpc \in {"resolve", "archive"}

\* The rows the loop has finished.
RowsDone == {urls_to_process[p] : p \in 1..pos}

C15_Order ==
    /\ \A p, q \in 1..Len(urls_to_process) : p < q => urls_to_process[p] < urls_to_process[q]
    /\ bpc \in {"loop", "resolve", "archive"} =>
          /\ \A k \in RowsDone : df[k].status \in {"Success", "Failed", "Error"}
          /\ \A k \in (1..Len(df)) \ RowsDone : df[k].status = ""
    /\ \A k \in 1..Len(df) :
          /\ df[k].error_message \in {"Invalid URL format", "Invalid URL provided"} =>
                df[k].url = <<" ">>
          /\ df[k].url = <<" ">> => df[k].status # "Success"
          /\ df[k].url = <<" ">> /\ df[k].status = "Error" =>
                df[k].error_message = IF deployment = "app" THEN "Invalid URL format"
                                      ELSE "Invalid URL provided"
          /\ df[k].status = "Success" =>
                df[k].redirect_chain = Join(<<Normalize(Strip(df[k].url)), Destination>>)

C15_Step ==
    /\ Len(df') = Len(df)
    /\ \A k \in 1..Len(df) : df'[k].url = df[k].url
    /\ InItem => \A k \in 1..Len(df) : k # urls_to_process[pos + 1] => df'[k] = df[k]
    /\ InItem /\ pos' # pos => pos' = pos + 1 /\ df'[urls_to_process[pos + 1]].status # ""
    /\ resolve_calls' > resolve_calls \/ archive_calls' > archive_calls => InItem

\* C15: the loop takes the admitted rows in input order, one at a time: while
\* it works on one row, every earlier admitted row has its final status and no
\* later row has any; resolve_url and archive_url are called only inside the
\* body for the current row, whose outcome is written to that row and to no
\* other, so the outcomes stand in input order.
C15_InputOrder == [](C15_Order) /\ [][C15_Step]_vars

C15_Witness ==
    /\ bpc = "archive" /\ pos = 2 /\ Len(df) = 3
    /\ df[1].url = <<" ">> /\ df[1].status = "Error"
    /\ df[2].status = "Success" /\ df[3].status = ""

\* The rows the loop has not taken.
RowsLeft == {urls_to_process[p] : p \in (pos + 1)..Len(urls_to_process)}

\* The step taken when the deadline test trips.
C16_TripStep ==
    bpc = "loop" /\ DeadlineTrips =>
        /\ bpc' = "done"
        /\ \A k \in RowsLeft : df'[k].status = "Skipped"
        /\ resolve_calls' = resolve_calls /\ archive_calls' = archive_calls
        /\ pos' = pos

C16_Stopped ==
    /\ bpc = "done" => ~ENABLED BatchNext
    /\ bpc = "done" /\ pos < Len(urls_to_process) =>
          /\ deployment = "index"
          /\ elapsed + (Len(urls_to_process) - pos) * EstimatedPerUrl > Deadline
          /\ \A k \in RowsLeft :
                /\ df[k].status = "Skipped"
                /\ df[k].resolved_url = <<>> /\ df[k].wayback_url = <<>>
    /\ \A k \in 1..Len(df) : df[k].status = "Skipped" => bpc = "done" /\ k \in RowsLeft

\* C16: when the deadline test of index.py trips, one step marks every row
\* the loop has not taken Skipped and ends the loop, with no call of resolve_url
\* or archive_url in it or after it; a loop that ends before the last admitted
\* row has ended this way.
C16_DeadlineOnlyStop == [](C16_Stopped) /\ [][C16_TripStep]_vars

C16_Witness ==
    /\ bpc = "done" /\ deployment = "index" /\ pos = 2 /\ Len(urls_to_process) = 3
    /\ df[urls_to_process[3]].status = "Skipped"
    /\ df[urls_to_process[2]].status = "Success"

\* resolve_with_retries returned for the current item without a final URL and
\* without an exception reaching process_urls.
ReturnedNoFinalUrl == resolved = NoResolved /\ last_raised = ""

C17_Failed ==
    ItemFinished /\ ReturnedNoFinalUrl =>
        /\ FinishedRow.status = "Failed"
        /\ FinishedRow.error_message = "Unable to resolve URL"
        /\ FinishedRow.wayback_url = <<>>
        /\ archive_calls = 0
        /\ error_count >= 1
        /\ success_count + error_count = processed_count

C17_Step ==
    InItem /\ pos' = pos + 1 /\ resolved' = NoResolved /\ last_raised' = "" =>
        /\ df'[urls_to_process[pos + 1]].status = "Failed"
        /\ error_count' = error_count + 1
        /\ success_count' = success_count
        /\ archive_calls' = 0

\* C17: when resolution comes back without an exception and without a final
\* URL, the row gets status Failed and the message "Unable to resolve URL",
\* archive_url is not called for it, and error_count goes up by one.
C17_NoFinalUrlFailed == [](C17_Failed) /\ [][C17_Step]_vars

C17_Witness ==
    /\ ItemFinished /\ ReturnedNoFinalUrl /\ FinishedRow.status = "Failed"
    /\ pos = 2 /\ error_count = 2 /\ FinishedRow.url = <<"a">>

\* The row holds what the initialisation of the result columns left in it.
Untouched(row) ==
    /\ row.status = "" /\ row.error_message = ""
    /\ row.resolved_url = <<>> /\ row.redirect_chain = <<>> /\ row.wayback_url = <<>>

C18_Step ==
    \A k \in 1..Len(df) :
        df'[k] # df[k] =>
            \/ bpc = "start"
            \/ /\ InItem
               /\ k = urls_to_process[pos + 1]
               /\ Untouched(df[k])
               /\ df'[k].status \in {"Success", "Failed", "Error"}
               /\ pos' = pos + 1
            \/ /\ bpc = "loop" /\ DeadlineTrips
               /\ k \in RowsLeft
               /\ Untouched(df[k])
               /\ df'[k].status = "Skipped"
               /\ bpc' = "done"

C18_Rows ==
    bpc # "start" =>
        \A k \in 1..Len(df) : df[k].status = "" => Untouched(df[k])

\* C18: after the result columns are initialised, a row is changed by one step
\* only: the step that ends the loop body for that row, or the skip pass for a
\* row the loop has not taken; the row is untouched before that step and has a
\* non-empty status after it, so a row with a non-empty status is never
\* changed again.
C18_WrittenOnce == [](C18_Rows) /\ [][C18_Step]_vars

C18_Witness ==
    /\ bpc = "done" /\ Len(urls_to_process) = 3 /\ pos = 2
    /\ df[urls_to_process[1]].status = "Error"
    /\ df[urls_to_process[2]].status = "Success"
    /\ df[urls_to_process[3]].status = "Skipped"

C19_Count ==
    /\ deployment = "app" /\ bpc \in {"loop", "resolve", "archive"} => sleeps = pos
    /\ deployment = "app" /\ bpc = "done" /\ total_urls >= 1 =>
          pos = total_urls /\ sleeps = total_urls - 1
    /\ deployment = "index" /\ bpc # "start" =>
          sleeps <= pos /\ (pos = Len(urls_to_process) /\ pos >= 1 => sleeps <= pos - 1)

C19_LastItem ==
    /\ sleeps' \in {sleeps, sleeps + 1}
    /\ sleeps' = sleeps + 1 => InItem /\ pos' = pos + 1 /\ pos' < Len(urls_to_process)
    /\ deployment = "app" /\ InItem /\ pos' = pos + 1 /\ pos' < Len(urls_to_process) =>
          sleeps' = sleeps + 1

\* C19: the wait between items follows an item only when another admitted row
\* is left, never the last one; app.py waits after every item but the last, so
\* a run of n items ends with n-1 waits.
C19_SleepBetweenItems == [](C19_Count) /\ [][C19_LastItem]_vars

C19_Witness ==
    /\ deployment = "app" /\ bpc = "done" /\ total_urls = 3 /\ sleeps = 2

(* ------------------------------------------------------------------ *)
(* Relative redirect targets                                           *)
(* ------------------------------------------------------------------ *)

\* An absolute http(s) URL: a scheme and a host.
Absolute(u) == StartsWithScheme(u) /\ Netloc(u) # <<>>

\* C20: a redirect target is made absolute before it is compared with the
\* chain and appended, after HEAD and after the GET fallback alike, so every
\* chain entry is an absolute http(s) URL and the URL a request goes to is one.
C20_AbsoluteTargets ==
    /\ \A k \in 1..Len(redirect_chain) : Absolute(redirect_chain[k])
    /\ rpc \in {"head", "get"} => Absolute(current_url)
    /\ rpc = "returned" => Absolute(rresult.final_url)

\* C21: the chain resolve_url returns holds no URL twice.
C21_NoDuplicates ==
    rpc = "returned" =>
        \A j, k \in 1..Len(rresult.chain) : j # k => rresult.chain[j] # rresult.chain[k]

\* A response that carries a redirect status without a Location, or a status
\* that is no redirect status, 200 or 405.
StopsTheWalk(r) ==
    /\ r.method # "none"
    /\ r.exc = "none"
    /\ \/ r.status \in RedirectStatuses /\ ~Truthy(r.location)
       \/ r.status \notin RedirectStatuses \cup {200, 405}

\* A request was answered in this step.
Answered == head_count' + get_count' = head_count + get_count + 1

C22_Step ==
    Answered /\ StopsTheWalk(last') =>
        /\ rpc' = "returned"
        /\ redirect_chain' = redirect_chain
        /\ current_url' = current_url
        /\ rresult' = Returned(current_url, redirect_chain)
        /\ last'.url = current_url

C22_Returned ==
    rpc \in {"returned", "raised"} /\ StopsTheWalk(last) =>
        /\ rpc = "returned"
        /\ rresult.kind = "return"
        /\ rresult.final_url = last.url
        /\ rresult.chain[Len(rresult.chain)] = last.url

\* C22: a response with a redirect status and no Location, and a response with
\* a status other than 301/302/303/307/308, 200 and 405, ends the call in that
\* step: the URL the request went to is returned as final, with the chain as it
\* was, and nothing is raised.
C22_StopsAtOnce == [](C22_Returned) /\ [][C22_Step]_vars

C22_Witness ==
    /\ rpc = "returned" /\ last.method = "HEAD" /\ last.status = 404
    /\ Len(rresult.chain) = 2 /\ head_count = 2

\* A request sent with verify=False follows the verify=True request of the same
\* method to the same URL that raised SSLError; when it raises SSLError itself,
\* the call raises.
C23_Step ==
    Answered /\ ~last'.verify =>
        /\ last.method = last'.method
        /\ last.url = last'.url
        /\ last.verify
        /\ last.exc = "SSLError"
        /\ last'.exc = "SSLError" =>
              /\ rpc' = "raised"
              /\ rresult' = Raised(ErrorMessage("SSLError"))

\* A verify=True request that raised SSLError is followed by its retry.
C23_Retry ==
    /\ last.method # "none" /\ last.verify /\ last.exc = "SSLError" =>
          rpc = IF last.method = "HEAD" THEN "head_noverify" ELSE "get_noverify"
    /\ rpc \in {"head_noverify", "get_noverify"} =>
          last.verify /\ last.exc = "SSLError" /\ last.url = current_url
    /\ ~last.verify /\ last.exc # "none" => rpc = "raised" /\ rresult.kind = "raise"

\* C23: a request with verify=False is sent only in the step right after a
\* verify=True request of the same method to the same URL raised SSLError, once
\* for that failure; an SSLError of the unverified request is not retried and
\* the call raises.
C23_TlsRetryOnce == [](C23_Retry) /\ [][C23_Step]_vars

C23_Witness ==
    /\ rpc = "raised" /\ ~last.verify /\ last.exc = "SSLError"
    /\ last.method = "GET" /\ Len(redirect_chain) = 2

\* The error kind a message stands for.
KindOf(msg) ==
    CASE msg = "Request timeout after 10 seconds" -> "timeout"
      [] msg = "Connection error - unable to reach URL" -> "connection"
      [] msg = "Too many redirects" -> "too_many_redirects"
      [] msg = "Request failed" -> "request_failed"
      [] OTHER -> "other"

\* The error kind of a transport exception; requests' SSLError is a
\* ConnectionError.
KindFor(exc) ==
    CASE exc = "Timeout" -> "timeout"
      [] exc \in {"ConnectionError", "SSLError"} -> "connection"
      [] exc = "TooManyRedirects" -> "too_many_redirects"
      [] OTHER -> "request_failed"

\* The request of this step raised and is not the verify=True request whose
\* SSLError the retry with verify=False follows.
FailsForGood(r) == r.exc # "none" /\ ~(r.verify /\ r.exc = "SSLError")

C24_Step ==
    Answered /\ FailsForGood(last') =>
        /\ rpc' = "raised"
        /\ rresult'.kind = "raise"
        /\ KindOf(rresult'.error) = KindFor(last'.exc)
        /\ rresult'.chain = <<>>
        /\ rresult'.final_url = None

C24_Ended ==
    /\ rpc = "returned" => last.exc = "none"
    /\ rpc = "raised" /\ last.method # "none" =>
          /\ FailsForGood(last)
          /\ rresult.kind = "raise"
          /\ KindOf(rresult.error) = KindFor(last.exc)
          /\ rresult.chain = <<>>

\* C24 (amended): a transport failure other than the SSLError of a verify=True
\* request ends the call with an exception of the kind that belongs to the
\* failure (timeout, connection error, too many redirects, request failure);
\* the call does not return and the chain built so far is not handed out.
C24_FailureKinds == [](C24_Ended) /\ [][C24_Step]_vars

C24_Witness ==
    /\ rpc = "raised" /\ last.exc = "TooManyRedirects"
    /\ Len(redirect_chain) = 2 /\ rresult.error = "Too many redirects"

\* C24 as stated: a call in which a request raised a transport exception
\* never returns normally.
C24_NeverSwallowed ==
    rpc \in {"returned", "raised"} /\ failed =>
        /\ rpc = "raised"
        /\ KindOf(rresult.error) # "other"
        /\ rresult.chain = <<>>

\* The availability request failed: a transport error, a status other than 200,
\* a body that is no JSON, a body without the snapshot fields, a snapshot
\* without URL or timestamp, or a timestamp that does not parse.
CheckFailed(ans) ==
    \/ ans.kind \in {"exception", "status503", "malformed", "no_snapshots", "no_closest"}
    \/ ans.kind = "closest" /\ (~Truthy(ans.url) \/ ans.tskind # "valid")

C25_Step ==
    avail_requests' = avail_requests + 1 /\ CheckFailed(avail_seen') =>
        /\ apc' = "save"
        /\ aresult' = NoArchiveResult
        /\ save_requests' = 0

C25_SaveStep ==
    apc = "save" /\ apc' # "save" =>
        /\ save_requests' = 1
        /\ avail_requests' = 1
        /\ apc' = "done"

C25_Falls ==
    /\ save_requests <= 1
    /\ apc = "save" => save_requests = 0 /\ ENABLED SaveRequest
    /\ avail_requests = 1 /\ CheckFailed(avail_seen) =>
          /\ apc \in {"save", "done"}
          /\ apc = "done" =>
                /\ save_requests = 1
                /\ \E ans \in SaveAnswers(Normalize(archive_arg)) :
                      /\ ans.status = save_status
                      /\ aresult = ClassifySave(ans, Normalize(archive_arg), utcnow)

\* C25: when the availability request fails (transport error, status other than
\* 200, malformed body, missing fields, unparseable timestamp), archive_url
\* goes on to the save request, sends it exactly once, and what it returns or
\* raises is what the save request alone gives.
C25_CheckFailureSwallowed == [](C25_Falls) /\ [][C25_Step /\ C25_SaveStep]_vars

C25_Witness ==
    /\ apc = "done" /\ avail_seen.kind = "closest" /\ avail_seen.tskind = "unparseable"
    /\ save_requests = 1 /\ aresult.kind = "return" /\ aresult.value # None

\* The availability answer holds an available closest snapshot with a URL and
\* a timestamp less than the freshness window before now.
FreshSnapshot(ans, now) ==
    /\ ans.kind = "closest"
    /\ ans.available
    /\ ans.url # None /\ ans.url # <<>>
    /\ ans.tskind = "valid"
    /\ now - ans.timestamp < FreshHours * SecondsPerHour

C26_Step ==
    avail_requests' = avail_requests + 1 =>
        IF FreshSnapshot(avail_seen', utcnow')
        THEN /\ apc' = "done"
             /\ aresult' = ArchiveReturned(avail_seen'.url)
             /\ save_requests' = 0
        ELSE /\ apc' = "save"
             /\ aresult' = NoArchiveResult

C26_Done ==
    /\ apc = "done" /\ avail_requests = 1 =>
          (save_requests = 0 <=> FreshSnapshot(avail_seen, utcnow))
    /\ apc = "done" /\ avail_requests = 1 /\ save_requests = 0 =>
          aresult = ArchiveReturned(avail_seen.url)
    /\ apc = "done" /\ avail_requests = 1 /\ ~FreshSnapshot(avail_seen, utcnow) =>
          save_requests = 1
    /\ apc = "save" => ~FreshSnapshot(avail_seen, utcnow) /\ ENABLED SaveRequest

\* C26: archive_url returns the snapshot URL of the availability answer and
\* sends no save request exactly when the answer holds an available closest
\* snapshot with a URL and a timestamp whose age is below 24 hours; at an age
\* of 24 hours or more the save request is sent.
C26_FreshExactly == [](C26_Done) /\ [][C26_Step]_vars

C26_Witness ==
    /\ apc = "done" /\ save_requests = 1 /\ avail_requests = 1
    /\ avail_seen.kind = "closest" /\ avail_seen.available /\ Truthy(avail_seen.url)
    /\ avail_seen.tskind = "valid"
    /\ utcnow - avail_seen.timestamp = FreshHours * SecondsPerHour
    /\ prev_call.result.kind = "return" /\ prev_call.result.value # None

\* The failure reason a message of archive_url names.
ReasonOf(msg) ==
    IF \E k \in 1..Len(msg) : msg[k] = "Access forbidden - URL may be blocked from archiving"
    THEN "forbidden"
    ELSE IF \E k \in 1..Len(msg) : msg[k] = "Wayback Machine service not found"
    THEN "service"
    ELSE IF \E k \in 1..(Len(msg) - 1) : msg[k] = "Archiving failed with status code: "
    THEN "http"
    ELSE "other"

\* The status code a message of archive_url carries, "" when it carries none.
CodeOf(msg) ==
    IF \E k \in 1..(Len(msg) - 1) : msg[k] = "Archiving failed with status code: "
    THEN msg[Len(msg)]
    ELSE ""

\* The save endpoint answered the running call with a status of 400 or more.
SaveAnsweredError == apc = "done" /\ save_requests = 1 /\ save_status >= 400

C27_Reasons ==
    SaveAnsweredError =>
        /\ aresult.kind = "raise"
        /\ aresult.value = None
        /\ save_status = 403 => ReasonOf(aresult.error) = "forbidden"
        /\ save_status = 404 => ReasonOf(aresult.error) = "service"
        /\ save_status \notin {403, 404, 429} =>
              /\ ReasonOf(aresult.error) = "http"
              /\ CodeOf(aresult.error) = ToString(save_status)

C27_Step ==
    save_requests' = save_requests + 1 /\ save_status' >= 400 =>
        /\ apc' = "done"
        /\ aresult'.kind = "raise"
        /\ aresult'.value = None

\* C27: when the save endpoint answers 403, 404 or another status of 400 or
\* more, archive_url raises with a message that tells forbidden, service not
\* found and "status code <code>" apart, and returns no snapshot reference.
C27_ErrorStatuses == [](C27_Reasons) /\ [][C27_Step]_vars

C27_Witness ==
    /\ SaveAnsweredError /\ save_status = 404 /\ aresult.kind = "raise"
    /\ prev_call.result.kind = "raise" /\ ReasonOf(prev_call.result.error) = "http"

\* The save endpoint answered the running call with HTTP 200.
SaveAnswered200 == apc = "done" /\ save_requests = 1 /\ save_status = 200

\* f"https://web.archive.org/web/{timestamp}/{url}"
Constructed(timestamp, u) == <<"https://">> \o SnapshotMarker \o <<timestamp, "/">> \o u

C28_Reference ==
    SaveAnswered200 =>
        /\ aresult.kind = "return"
        /\ aresult.value # None
        /\ Contains(SnapshotMarker, aresult.value)
        /\ IF Contains(SnapshotMarker, save_url)
           THEN aresult.value = save_url
           ELSE aresult.value = Constructed(ToString(utcnow), Normalize(archive_arg))

C28_Step ==
    save_requests' = save_requests + 1 /\ save_status' = 200 =>
        /\ apc' = "done"
        /\ aresult'.kind = "return"
        /\ aresult'.value \in {save_url', Constructed(ToString(utcnow'), Normalize(archive_arg))}

\* C28: when the save endpoint answers 200, archive_url returns a snapshot
\* reference: response.url when it contains web.archive.org/web/, else
\* https://web.archive.org/web/ followed by a timestamp (the current UTC time,
\* as no timestamp can be taken from a response.url without the marker), "/"
\* and the URL that was submitted.
C28_OkReturnsReference == [](C28_Reference) /\ [][C28_Step]_vars

C28_Witness ==
    /\ SaveAnswered200 /\ ~Contains(SnapshotMarker, save_url)
    /\ aresult.value = Constructed(ToString(utcnow), <<"https://", "b">>)
    /\ utcnow = 1

(* ------------------------------------------------------------------ *)
(* Resolve, then archive                                               *)
(* ------------------------------------------------------------------ *)

C29_Step ==
    /\ resolve_calls' > resolve_calls =>
          /\ bpc = "resolve"
          /\ archive_calls = 0
          /\ resolved = NoResolved
          /\ Untouched(df[CurrentRow])
    /\ archive_calls' > archive_calls =>
          /\ bpc = "archive"
          /\ resolve_calls >= 1
          /\ Truthy(resolved.final_url)
          /\ archive_url_arg' = resolved.final_url
          /\ resolved' = resolved
          /\ Untouched(df[CurrentRow])

C29_Flow ==
    /\ \A p, q \in 1..Len(urls_to_process) : p # q => urls_to_process[p] # urls_to_process[q]
    /\ InItem => Untouched(df[CurrentRow])
    /\ bpc \in {"loop", "resolve", "archive"} =>
          \A p \in (pos + 1)..Len(urls_to_process) : df[urls_to_process[p]].status = ""
    /\ archive_calls >= 1 =>
          /\ resolve_calls >= 1
          /\ Truthy(resolved.final_url)
          /\ archive_url_arg = resolved.final_url
    /\ archive_calls = 0 => archive_url_arg = None
    /\ ItemFinished /\ archive_calls >= 1 =>
          /\ FinishedRow.status = "Success"
          /\ FinishedRow.resolved_url = archive_url_arg
    /\ bpc \in {"loop", "done", "start"} => ~ENABLED ResolveAttempt /\ ~ENABLED ArchiveAttempt

\* C29: archive_url is called for a row only after resolve_url returned a final
\* URL for that row, and with that final URL; resolve_url and archive_url are
\* called only for the row the loop is at, whose status is not yet written, and
\* no row is visited twice.
C29_ResolveThenArchive == [](C29_Flow) /\ [][C29_Step]_vars

C29_Witness ==
    /\ ItemFinished /\ pos = 2 /\ archive_calls = 2 /\ resolve_calls = 2
    /\ archive_url_arg = Destination
    /\ FinishedRow.wayback_url # <<>> /\ FinishedRow.wayback_url[1] = "https://"

C30_Step ==
    archive_calls' > archive_calls =>
        /\ archive_calls' = archive_calls + 1
        /\ archive_calls' <= max_retries + 1
        /\ archive_outcome' = "snapshot" =>
              /\ pos' = pos + 1
              /\ df'[CurrentRow].status = "Success"
              /\ df'[CurrentRow].wayback_url # <<>>
              /\ df'[CurrentRow].wayback_url[1] = "https://"
              /\ Contains(SnapshotMarker, df'[CurrentRow].wayback_url)
        /\ archive_outcome' = "raised" /\ archive_calls' = max_retries + 1 =>
              /\ pos' = pos + 1
              /\ df'[CurrentRow].status = "Success"
              /\ df'[CurrentRow].error_message = ""
              /\ IsPlaceholder(df'[CurrentRow].wayback_url)
              /\ success_count' = success_count + 1
              /\ error_count' = error_count
        /\ archive_outcome' = "raised" /\ archive_calls' < max_retries + 1 =>
              /\ pos' = pos
              /\ bpc' = "archive"
              /\ df' = df

C30_Bound ==
    /\ archive_calls <= Max(max_retries + 1, 0)
    /\ bpc = "archive" => archive_calls <= max_retries /\ ENABLED ArchiveAttempt
    /\ bpc = "archive" => archive_outcome # "snapshot"
    /\ ItemFinished /\ archive_outcome = "snapshot" =>
          Contains(SnapshotMarker, FinishedRow.wayback_url)
    /\ ItemFinished /\ archive_outcome = "raised" =>
          /\ archive_calls = max_retries + 1
          /\ FinishedRow.status = "Success"
          /\ IsPlaceholder(FinishedRow.wayback_url)

\* C30: archive_url is called at most max_retries + 1 times for one row in
\* app.py and in index.py; a call that returns a snapshot reference ends the
\* loop in that step with the reference written to the row; an exception of
\* the last attempt is turned into a placeholder in wayback_url of a row that
\* is still a Success, and is not raised to process_urls.
C30_ArchiveRetries == [](C30_Bound) /\ [][C30_Step]_vars

C30_Witness ==
    /\ deployment = "index" /\ max_retries = DefaultRetries
    /\ ItemFinished /\ archive_outcome = "raised" /\ archive_calls = max_retries + 1
    /\ FinishedRow.status = "Success"
    /\ FinishedRow.wayback_url[1] = "Archive error: "

(* ------------------------------------------------------------------ *)
(* The adaptive delay of index.py                                      *)
(* ------------------------------------------------------------------ *)

\* The rows the loop body has not reached after the last finished one.
RowsAhead == total_urls - pos

\* remaining_time / max(remaining_urls_count, 1) - 0.3, at the end of the last
\* loop body.
MaxDelay == ((Deadline - last_wait.at) \div Max(RowsAhead, 1)) - ProcessingReserve

\* The wait index.py made after the last loop body is at most the delay of the
\* run and at most MaxDelay, and there is none when MaxDelay is not positive.
C31_Shrunk ==
    deployment = "index" /\ pos >= 1 =>
        /\ last_wait.ms >= 0
        /\ last_wait.ms <= delay
        /\ last_wait.ms > 0 => RowsAhead >= 1 /\ last_wait.ms <= MaxDelay
        /\ MaxDelay <= 0 => last_wait.ms = 0

\* C31: in index.py the wait after a loop body is at most the delay of the run
\* and at most the remaining budget divided by the rows ahead less the
\* processing reserve, there is no wait when that value is not positive, and
\* the clock plus the estimated work for the rows ahead plus the wait stays
\* within the deadline whenever the clock plus the estimated work did.
C31_WithinBudget ==
    /\ C31_Shrunk
    /\ deployment = "index" /\ pos >= 1 /\ RowsAhead >= 1
       /\ last_wait.at + RowsAhead * EstimatedPerUrl <= Deadline =>
          last_wait.at + RowsAhead * EstimatedPerUrl + last_wait.ms <= Deadline

(* ------------------------------------------------------------------ *)
(* Counters                                                            *)
(* ------------------------------------------------------------------ *)

\* The rows of df with one of the given statuses.
RowsWith(statuses) == {k \in 1..Len(df) : df[k].status \in statuses}

C32_Balance ==
    bpc \in {"loop", "resolve", "archive", "done"} =>
        /\ processed_count = success_count + error_count
        /\ success_count = Cardinality(RowsWith({"Success"}))
        /\ error_count = Cardinality(RowsWith({"Error", "Failed", "Skipped"}))
        /\ bpc = "done" => processed_count = total_urls

C32_Step ==
    processed_count' # processed_count /\ bpc # "start" =>
        /\ processed_count' > processed_count
        /\ processed_count' - processed_count =
              (success_count' - success_count) + (error_count' - error_count)
        /\ success_count' >= success_count /\ error_count' >= error_count

\* C32: after every loop body of app.py and index.py processed_count equals
\* success_count + error_count; success_count is the number of rows with
\* status Success and error_count the number of rows with status Error, Failed
\* or Skipped, at the end of the run too.
C32_CountersBalance == [](C32_Balance) /\ [][C32_Step]_vars

C32_Witness ==
    /\ bpc = "done" /\ deployment = "index" /\ total_urls = 3
    /\ success_count = 1 /\ error_count = 2
    /\ Cardinality(RowsWith({"Skipped"})) = 1 /\ Cardinality(RowsWith({"Error"})) = 1

(* ------------------------------------------------------------------ *)
(* Termination of resolve_url                                          *)
(* ------------------------------------------------------------------ *)

\* The loop iterations begun so far.
Iterations == IF rpc \in {"idle", "call"} THEN 0 ELSE Min(i + 1, max_redirects)

\* The place of a request inside one loop body.
Stage ==
    CASE rpc = "head" -> 0
      [] rpc = "head_noverify" -> 1
      [] rpc = "get" -> 2
      [] rpc = "get_noverify" -> 3
      [] OTHER -> 0

\* The requests resolve_url may still send: four per iteration not yet begun,
\* and those left in the running one.
RequestsLeft ==
    CASE rpc = "call" -> 4 * max_redirects + 1
      [] rpc \in {"head", "head_noverify", "get", "get_noverify"} ->
            4 * (max_redirects - i) - Stage
      [] OTHER -> 0

C33_Bounds ==
    /\ head_count <= 2 * Iterations
    /\ get_count <= 2 * Iterations
    /\ Iterations <= max_redirects
    /\ Len(redirect_chain) <= max_redirects + 1
    /\ rpc = "returned" => Len(rresult.chain) <= max_redirects + 1
    /\ RequestsLeft >= 0
    /\ rpc \in {"returned", "raised"} \/ ENABLED ResolverNext

C33_Progress == RequestsLeft' < RequestsLeft

\* C33: resolve_url terminates: it begins at most max_redirects loop
\* iterations, sends at most two HEAD and two GET requests in each, every step
\* uses up one of the requests that are left until the call returns or raises,
\* and the chain it returns has at most max_redirects + 1 entries.
C33_Terminates == [](C33_Bounds) /\ [][C33_Progress]_vars

C33_Witness ==
    /\ rpc = "returned" /\ max_redirects = 2
    /\ head_count = 4 /\ get_count = 3 /\ Len(rresult.chain) = max_redirects

(* ------------------------------------------------------------------ *)
(* The Failed branch                                                   *)
(* ------------------------------------------------------------------ *)

\* resolve_url returns a final URL that is neither None nor empty.
C34_FinalUrl ==
    /\ rpc = "returned" => rresult.final_url # None /\ rresult.final_url # <<>>
    /\ \A k \in 1..Len(df) : \A out \in ResolveUrlOutcomes(df[k].url) :
          out.kind = "return" => out.final_url # None /\ out.final_url # <<>>

\* The rows the loop body has finished.
RowsTaken == {urls_to_process[p] : p \in 1..pos}

C34_Rows ==
    /\ C34_FinalUrl
    /\ bpc \in {"loop", "resolve", "archive", "done"} =>
          \A k \in RowsTaken :
              /\ df[k].status \in {"Success", "Error", "Failed"}
              /\ df[k].status = "Failed" <=> max_retries < 0
    /\ ItemFinished /\ resolve_calls >= 1 => FinishedRow.status \in {"Success", "Error"}
    /\ ItemFinished /\ FinishedRow.status = "Failed" => resolve_calls = 0 /\ archive_calls = 0

C34_Step ==
    InItem /\ pos' = pos + 1 /\ df'[CurrentRow].status = "Failed" =>
        /\ max_retries < 0
        /\ resolve_calls' = 0
        /\ deployment = "index"

UrlFieldsEmpty(row) ==
    row.resolved_url = <<>> /\ row.redirect_chain = <<>> /\ row.wayback_url = <<>>

C35_Fields ==
    bpc \in {"loop", "resolve", "archive", "done"} =>
        \A k \in 1..Len(df) :
            df[k].status \in {"Error", "Failed", "Skipped"} => UrlFieldsEmpty(df[k])

C35_Step ==
    \A k \in 1..Len(df) :
        bpc # "start" /\ df'[k].status \in {"Error", "Failed", "Skipped"} /\ df'[k] # df[k] =>
            /\ UrlFieldsEmpty(df[k])
            /\ df'[k].resolved_url = df[k].resolved_url
            /\ df'[k].redirect_chain = df[k].redirect_chain
            /\ df'[k].wayback_url = df[k].wayback_url

\* C35: a row that ends with status Error, Failed or Skipped keeps the empty
\* resolved_url, redirect_chain and wayback_url it was given at the start of
\* the run; nothing of a walk that ended in an exception is written.
C35_NoPartialResult == [](C35_Fields) /\ [][C35_Step]_vars

C35_Witness ==
    /\ bpc = "done" /\ deployment = "index" /\ pos = 2 /\ total_urls = 3
    /\ df[1].status = "Success" /\ df[2].status = "Error" /\ df[3].status = "Skipped"
    /\ df[2].error_message = "Request timeout after 10 seconds"
    /\ UrlFieldsEmpty(df[2]) /\ UrlFieldsEmpty(df[3])

(* ------------------------------------------------------------------ *)
(* Rows outside the run                                                *)
(* ------------------------------------------------------------------ *)

\* The URL cell of row k is missing or empty.
NoUrl(k) == df[k].url = None \/ df[k].url = <<>>

\* The rows with a URL up to and including row k.
UrlRowsUpTo(k) == {j \in 1..k : ~NoUrl(j)}

\* The item cap of index.py: min(max_urls, int(8 / 0.5)).
ItemCap == Min(max_urls, SafeBudget \div EstimatedPerUrl)

\* Row k is taken into the run.
ShouldAdmit(k) ==
    /\ ~NoUrl(k)
    /\ deployment = "index" => Cardinality(UrlRowsUpTo(k)) <= ItemCap

\* The rows the run took.
AdmittedRows == {urls_to_process[p] : p \in 1..Len(urls_to_process)}

\* All five result fields of a row hold the empty string.
AllFieldsEmpty(row) ==
    /\ row.resolved_url = <<>> /\ row.redirect_chain = <<>> /\ row.wayback_url = <<>>
    /\ row.status = "" /\ row.error_message = ""

C36_Outside ==
    bpc \in {"loop", "resolve", "archive", "done"} =>
        /\ AdmittedRows = {k \in 1..Len(df) : ShouldAdmit(k)}
        /\ total_urls = Cardinality(AdmittedRows)
        /\ \A k \in (1..Len(df)) \ AdmittedRows : AllFieldsEmpty(df[k])
        /\ processed_count <= total_urls
        /\ success_count + error_count <= total_urls
        /\ success_count + error_count =
              Cardinality({k \in AdmittedRows : df[k].status # ""})
        /\ InItem => CurrentRow \in AdmittedRows

C36_Step ==
    bpc # "start" =>
        /\ \A k \in (1..Len(df)) \ AdmittedRows : df'[k] = df[k]
        /\ urls_to_process' = urls_to_process /\ total_urls' = total_urls
        /\ resolve_calls' > resolve_calls \/ archive_calls' > archive_calls =>
              InItem /\ CurrentRow \in AdmittedRows /\ ShouldAdmit(CurrentRow)

\* C36: a row whose URL cell is missing or empty, and in index.py a row beyond
\* the first min(max_urls, 16) rows with a URL, is not taken into the run:
\* resolve_url and archive_url are not called for it, it is not counted in
\* total_urls, processed_count, success_count or error_count, and its five
\* result fields stay empty, status included.
C36_NotAdmitted == [](C36_Outside) /\ [][C36_Step]_vars

C36_Witness ==
    /\ bpc = "done" /\ deployment = "index" /\ max_urls = 2 /\ Len(df) = 3
    /\ df[1].url = None /\ ~NoUrl(2) /\ ~NoUrl(3)
    /\ total_urls = 2 /\ success_count = 2
    /\ AllFieldsEmpty(df[1])

C36_CapWitness ==
    /\ bpc = "done" /\ deployment = "index" /\ max_urls = 2 /\ Len(df) = 3
    /\ \A k \in 1..3 : ~NoUrl(k)
    /\ total_urls = 2 /\ AllFieldsEmpty(df[3]) /\ df[2].status = "Success"

(* ------------------------------------------------------------------ *)
(* wayback_url of Success rows                                         *)
(* ------------------------------------------------------------------ *)

\* A snapshot reference of the archive service.
IsSnapshotRef(v) ==
    /\ Len(v) >= 1 /\ v[1] \in SchemeTokens
    /\ Contains(SnapshotMarker, v)

C37_Field ==
    bpc \in {"loop", "resolve", "archive", "done"} =>
        \A k \in 1..Len(df) :
            df[k].status = "Success" =>
                /\ df[k].wayback_url # None
                /\ df[k].wayback_url # <<>>
                /\ IsSnapshotRef(df[k].wayback_url) \/ IsPlaceholder(df[k].wayback_url)

C37_Step ==
    InItem /\ pos' = pos + 1 /\ df'[CurrentRow].status = "Success" =>
        /\ archive_outcome' = "snapshot" => IsSnapshotRef(df'[CurrentRow].wayback_url)
        /\ archive_outcome' # "snapshot" => IsPlaceholder(df'[CurrentRow].wayback_url)

\* C37: in app.py and index.py a row with status Success has a non-empty
\* wayback_url: the snapshot reference archive_url returned, or a placeholder
\* text when archiving gave none.
C37_WaybackNonEmpty == [](C37_Field) /\ [][C37_Step]_vars

C37_Witness ==
    /\ bpc = "done" /\ deployment = "app" /\ pos = 2
    /\ df[urls_to_process[1]].status = "Success"
    /\ df[urls_to_process[1]].wayback_url = <<"Failed to archive">>
    /\ df[urls_to_process[2]].status = "Success"
    /\ IsSnapshotRef(df[urls_to_process[2]].wayback_url)
    /\ archive_calls = 1

(* ------------------------------------------------------------------ *)
(* Retries of an argument resolve_url rejects                          *)
(* ------------------------------------------------------------------ *)

C38_Retried ==
    /\ ItemFinished /\ EveryAttemptRaised =>
          /\ resolve_calls = max_retries + 1
          /\ retry_sleeps = max_retries
          /\ FinishedRow.status = "Error"
          /\ FinishedRow.error_message = last_raised
    /\ ItemFinished /\ Strip(FinishedRow.url) = <<>> /\ max_retries >= 0 =>
          /\ last_raised \in InvalidMessages
          /\ resolve_calls = max_retries + 1
          /\ retry_sleeps = max_retries
    /\ bpc = "resolve" => retry_sleeps = resolve_calls /\ resolve_calls = attempt

C38_Step ==
    resolve_calls' > resolve_calls /\ last_raised' \in InvalidMessages =>
        IF attempt = max_retries
        THEN /\ pos' = pos + 1
             /\ df'[CurrentRow].status = "Error"
             /\ df'[CurrentRow].error_message = last_raised'
             /\ retry_sleeps' = retry_sleeps
        ELSE /\ bpc' = "resolve"
             /\ attempt' = attempt + 1
             /\ retry_sleeps' = retry_sleeps + 1
             /\ df' = df
             /\ deployment = "index" /\ elapsed' < MaxElapsed =>
                   elapsed' >= elapsed + RetrySleepIndex

\* C38: resolve_with_retries treats every exception alike: for an argument
\* resolve_url rejects, as for a transport failure, resolve_url is called
\* max_retries + 1 times with a sleep after every call but the last, and then
\* the row is written as Error with the message of the last exception.
C38_InvalidRetried == [](C38_Retried) /\ [][C38_Step]_vars

C38_Witness ==
    /\ ItemFinished /\ deployment = "app" /\ max_retries = 2
    /\ FinishedRow.url = <<" ">> /\ FinishedRow.status = "Error"
    /\ FinishedRow.error_message = "Invalid URL format"
    /\ resolve_calls = 3 /\ retry_sleeps = 2

(* ------------------------------------------------------------------ *)
(* app.py and index.py on the same outcomes                            *)
(* ------------------------------------------------------------------ *)

\* The four fields of a row the two drivers are compared on.
Fields(row) ==
    [status |-> row.status, error_message |-> row.error_message,
     resolved_url |-> row.resolved_url, redirect_chain |-> row.redirect_chain]

\* The deadline has not tripped and every row with a URL is in the run.
SameRun ==
    /\ RowsWith({"Skipped"}) = {}
    /\ Len(urls_to_process) = Len(NonEmptyRows(df, 1))

\* The loop bodies finished so far whose row the given driver writes with the
\* given status.
CountApp(statuses) ==
    Cardinality({p \in 1..Len(outcome_log) : AppRow(outcome_log[p]).status \in statuses})

CountIndex(statuses) ==
    Cardinality({p \in 1..Len(outcome_log) :
                    IndexRow(outcome_log[p], Strip(df[urls_to_process[p]].url)).status \in statuses})

C39_Same ==
    bpc \in {"loop", "resolve", "archive", "done"} /\ SameRun =>
        /\ Len(outcome_log) = pos
        /\ \A p \in 1..pos :
              LET k == urls_to_process[p]
              IN  /\ Fields(df[k]) = AppRow(outcome_log[p])
                  /\ Fields(df[k]) = IndexRow(outcome_log[p], Strip(df[k].url))
        /\ success_count = CountApp({"Success"})
        /\ success_count = CountIndex({"Success"})
        /\ error_count = CountApp({"Error", "Failed"})
        /\ error_count = CountIndex({"Error", "Failed"})

C39_Step ==
    InItem /\ pos' = pos + 1 =>
        /\ Len(outcome_log') = pos'
        /\ Fields(df'[CurrentRow]) = AppRow(outcome_log'[pos'])
        /\ Fields(df'[CurrentRow]) = IndexRow(outcome_log'[pos'], Strip(df[CurrentRow].url))

\* C39: when the deadline does not trip and the item cap is not reached, the
\* row app.py writes and the row index.py writes for the same outcome of
\* resolve_with_retries agree in status, error_message, resolved_url and
\* redirect_chain, in either driver every finished row holds these fields,
\* and success_count and error_count are the counts both drivers give.
C39_DriversAgree == [](C39_Same) /\ [][C39_Step]_vars

C39_Witness ==
    /\ bpc = "done" /\ deployment = "index" /\ SameRun /\ pos = 3
    /\ df[1].status = "Success" /\ df[2].status = "Error" /\ df[3].status = "Success"
    /\ success_count = 2 /\ error_count = 1 /\ max_retries = DefaultRetries

(* ------------------------------------------------------------------ *)
(* Which save failures are wrapped                                     *)
(* ------------------------------------------------------------------ *)

UnexpectedPrefix == "Unexpected error during archiving: "

\* The save endpoint answered the running call with a status other than 200.
SaveAnsweredNon200 ==
    apc = "done" /\ save_requests = 1 /\ save_status > 0 /\ save_status # 200

C40_Messages ==
    SaveAnsweredNon200 =>
        /\ save_status = 429 =>
              aresult = ArchiveRaised(<<"Rate limited by Wayback Machine. Please slow down requests.">>)
        /\ save_status = 403 =>
              aresult = ArchiveRaised(<<"Access forbidden - URL may be blocked from archiving">>)
        /\ save_status = 404 =>
              aresult = ArchiveRaised(<<UnexpectedPrefix, "Wayback Machine service not found">>)
        /\ save_status >= 400 /\ save_status \notin {403, 404, 429} =>
              aresult = ArchiveRaised(<<UnexpectedPrefix, "Archiving failed with status code: ",
                                        ToString(save_status)>>)
        /\ save_status < 400 => aresult = ArchiveReturned(None)
        /\ aresult.kind = "raise" =>
              (aresult.error[1] # UnexpectedPrefix <=> save_status \in {403, 429})

C40_Step ==
    save_requests' = save_requests + 1 /\ save_status' > 0 /\ save_status' # 200 =>
        /\ apc' = "done"
        /\ aresult'.kind = "raise" <=> save_status' >= 400
        /\ aresult'.kind = "return" => aresult'.value = None

\* C40: after a save response other than 200, the 429 and 403 messages are
\* raised as they were written, the 404 and other messages of a status of
\* 400 or more are raised behind "Unexpected error during archiving: ", and
\* a status below 400 makes archive_url return None without raising.
C40_WrappedFailures == [](C40_Messages) /\ [][C40_Step]_vars

C40_Witness ==
    /\ SaveAnsweredNon200 /\ save_status = 204 /\ aresult = ArchiveReturned(None)
    /\ prev_call.result.kind = "raise" /\ prev_call.result.error[1] = UnexpectedPrefix
    /\ Len(prev_call.result.error) = 2

====
